---- MODULE Spec2Model ----
(***************************************************************************)
(* The relying-party disclosure session state machine of                   *)
(* wallet_core/openid4vc/src/verifier.rs: the Verifier operations          *)
(* new_session, process_get_request, process_authorization_response,       *)
(* status_response and disclosed_attributes over an abstract session       *)
(* store, with the HMAC-derived, time-boxed ephemeral session ID.          *)
(***************************************************************************)
EXTENDS Integers, Sequences, FiniteSets, TLC

VARIABLES sessions, now, lastOp, handler

vars == <<sessions, now, lastOp, handler>>

(***************************************************************************)
(* Bounds of the model.                                                    *)
(***************************************************************************)
\* The clock runs up to second MaxTime.
MaxTime == 11

(***************************************************************************)
(* Option<T>: None is the empty sequence, Some(x) the one-element one.     *)
(***************************************************************************)
None == <<>>
Some(x) == <<x>>

(***************************************************************************)
(* Program constants and configuration.                                    *)
(***************************************************************************)
EPHEMERAL_ID_VALIDITY_SECONDS == 10

\* SessionToken values: the tokens of requests, which are those that
\* SessionToken::new_random returns, and one more that only forged ephemeral
\* IDs are made for.
Tokens == {"t1"}
AllTokens == Tokens \cup {"t2"}

\* The instants at which the clock is read: second 0 and the seconds from one
\* before the end of the validity window of an ephemeral ID made at second 0.
Instants == {0} \cup ((EPHEMERAL_ID_VALIDITY_SECONDS - 1)..MaxTime)

SessionType == {"same_device", "cross_device"}

SessionTypeReturnUrl == {"Neither", "SameDevice", "Both"}

\* The use case registry handed to Verifier::new: per use case the return URL
\* policy and the outcome of key_pair.certificate().san_dns_name().
UseCases ==
    [uc_neither |-> [session_type_return_url |-> "Neither",
                     san_dns_name |-> [ok |-> TRUE, value |-> Some("neither.example.com")]],
     uc_same    |-> [session_type_return_url |-> "SameDevice",
                     san_dns_name |-> [ok |-> TRUE, value |-> Some("same.example.com")]],
     uc_both    |-> [session_type_return_url |-> "Both",
                     san_dns_name |-> [ok |-> TRUE, value |-> Some("both.example.com")]],
     uc_nosan   |-> [session_type_return_url |-> "SameDevice",
                     san_dns_name |-> [ok |-> TRUE, value |-> None]],
     uc_badcert |-> [session_type_return_url |-> "Both",
                     san_dns_name |-> [ok |-> FALSE, value |-> None]]]

\* The usecase_id arguments callers pass, one of them not in the registry.
UseCaseIds == DOMAIN UseCases \cup {"uc_unknown"}

\* The items_requests arguments callers pass: ItemsRequests(Vec<ItemsRequest>).
ItemsRequestsArgs == {<<>>, <<"com.example.pid">>}

\* The return_url_template arguments callers pass.
ReturnUrlTemplateArgs == {None, Some("https://rp.example.com/return/{session_token}")}

\* Values of random_string(32).
RandomStrings == {"r1", "r2"}

\* Key pairs EcKeyPair::generate can return.
EcKeyPairs == {"ek1"}

\* The HMAC key of the verifier, and a key of somebody else.
ephemeral_id_secret == "secret"

(***************************************************************************)
(* The session store (collaborator): sessions maps a token to the stored   *)
(* SessionState<DisclosureData>, or to NoSession.                          *)
(***************************************************************************)
NoSession == [data |-> [state |-> "None"]]

\* SessionState::new(token, data): last_active is the current time.
SessionState(token, data, time) ==
    [data |-> data, token |-> token, last_active |-> time]

Existing == {t \in DOMAIN sessions : sessions[t] # NoSession}

\* What SessionStore::get yields for a token.
StoreGet(token) == IF sessions[token] = NoSession THEN None ELSE Some(sessions[token])

\* What SessionStore::write leaves in the store.
StoreWrite(state) == [sessions EXCEPT ![state.token] = state]

\* The record of the last operation: its name, arguments and result, the
\* number of store reads and writes it made, and the is_new flag it passed to
\* SessionStore::write, if it called it.
Op(op, token, args, res, reads, writes, is_new) ==
    [op |-> op, token |-> token, args |-> args, res |-> res,
     reads |-> reads, writes |-> writes, is_new |-> is_new]

Ok(value) == [ok |-> TRUE, value |-> value]
Err(error) == [ok |-> FALSE, error |-> error]

\* An error variant that wraps the error it was converted from (#[from]).
ErrFrom(error, source) == [ok |-> FALSE, error |-> error, source |-> source]

\* The errors of VpAuthorizationResponse::decrypt_and_verify.
AuthResponseErrors == {"JweDecryption", "Verification"}

\* Display of AuthResponseError.
AuthResponseErrorToString(error) ==
    CASE error = "JweDecryption" -> "error decrypting JWE"
      [] error = "Verification" -> "error verifying disclosed attributes"

(***************************************************************************)
(* Display renderings (thiserror #[error(...)]) of the errors stored in    *)
(* Done{Failed}; the rendering of the source error, which follows the      *)
(* colon, is left out for GetAuthRequestError and UserError.               *)
(***************************************************************************)
ErrorToString(error) ==
    CASE error = "EncryptionKey" -> "error creating ephemeral encryption keypair"
      [] error = "AuthRequest" -> "error creating Authorization Request"
      [] error = "Jwt" -> "error signing Authorization Request JWE"
      [] error = "AuthResponse" -> "error decrypting or verifying Authorization Response JWE"
      [] error = "UserError" -> "user aborted with error"
      [] error \in AuthResponseErrors -> AuthResponseErrorToString(error)
      [] OTHER -> "session error"

(***************************************************************************)
(* Verifier::new_session                                                   *)
(***************************************************************************)
\* Mutant: the use case is looked up before the items requests are checked.
NewSessionCheck_UseCaseFirst(items_requests, usecase_id, return_url_template) ==
    IF usecase_id \notin DOMAIN UseCases THEN "UnknownUseCase"
    ELSE IF items_requests = <<>> THEN "NoItemsRequests"
    ELSE LET use_case == UseCases[usecase_id] IN
         IF (CASE use_case.session_type_return_url = "Neither" -> return_url_template # None
               [] OTHER -> return_url_template = None)
         THEN "ReturnUrlConfigurationMismatch"
         ELSE IF ~use_case.san_dns_name.ok THEN "Certificate"
         ELSE IF use_case.san_dns_name.value = None THEN "MissingSAN"
         ELSE "none"

\* Mutant: only the policy Both requires a return URL template.
NewSessionCheck_SameDeviceOptional(items_requests, usecase_id, return_url_template) ==
    IF items_requests = <<>> THEN "NoItemsRequests"
    ELSE IF usecase_id \notin DOMAIN UseCases THEN "UnknownUseCase"
    ELSE LET use_case == UseCases[usecase_id] IN
         IF (CASE use_case.session_type_return_url = "Neither" -> return_url_template # None
               [] use_case.session_type_return_url = "SameDevice" -> FALSE
               [] OTHER -> return_url_template = None)
         THEN "ReturnUrlConfigurationMismatch"
         ELSE IF ~use_case.san_dns_name.ok THEN "Certificate"
         ELSE IF use_case.san_dns_name.value = None THEN "MissingSAN"
         ELSE "none"

\* Mutant: the return URL template is not compared with the policy.
NewSessionCheck_NoPolicyCheck(items_requests, usecase_id, return_url_template) ==
    IF items_requests = <<>> THEN "NoItemsRequests"
    ELSE IF usecase_id \notin DOMAIN UseCases THEN "UnknownUseCase"
    ELSE LET use_case == UseCases[usecase_id] IN
         IF ~use_case.san_dns_name.ok THEN "Certificate"
         ELSE IF use_case.san_dns_name.value = None THEN "MissingSAN"
         ELSE "none"

\* The checks of new_session before a session is made: the error, or "none".
NewSessionCheck(items_requests, usecase_id, return_url_template) ==
    IF items_requests = <<>> THEN "NoItemsRequests"
    ELSE IF usecase_id \notin DOMAIN UseCases THEN "UnknownUseCase"
    ELSE LET use_case == UseCases[usecase_id] IN
         IF (CASE use_case.session_type_return_url = "Neither" -> return_url_template # None
               [] OTHER -> return_url_template = None)
         THEN "ReturnUrlConfigurationMismatch"
         ELSE IF ~use_case.san_dns_name.ok THEN "Certificate"
         ELSE IF use_case.san_dns_name.value = None THEN "MissingSAN"
         ELSE "none"

\* Mutant: the session is created without the return URL template.
NewCreated_DropsTemplate(session_token, items_requests, usecase_id, client_id, return_url_template) ==
    SessionState(session_token,
                 [state |-> "Created",
                  items_requests |-> items_requests,
                  usecase_id |-> usecase_id,
                  client_id |-> client_id,
                  redirect_uri_template |-> None],
                 now)

\* Session::<Created>::new
NewCreated(session_token, items_requests, usecase_id, client_id, return_url_template) ==
    SessionState(session_token,
                 [state |-> "Created",
                  items_requests |-> items_requests,
                  usecase_id |-> usecase_id,
                  client_id |-> client_id,
                  redirect_uri_template |-> return_url_template],
                 now)

new_session(items_requests, usecase_id, return_url_template) ==
    LET args == [items_requests |-> items_requests, usecase_id |-> usecase_id,
                 return_url_template |-> return_url_template]
        error == NewSessionCheck(items_requests, usecase_id, return_url_template)
        done(token, res, writes) ==
            lastOp' = Op("new_session", token, args, res, 0, writes,
                         IF writes = 0 THEN None ELSE Some(TRUE))
    IN  /\ UNCHANGED <<now, handler>>
        /\ IF error # "none"
           THEN done(None, Err(error), 0) /\ UNCHANGED sessions
           ELSE \E session_token \in DOMAIN sessions \ Existing, writeOk \in BOOLEAN :
                LET client_id == UseCases[usecase_id].san_dns_name.value[1]
                    session_state == NewCreated(session_token, items_requests, usecase_id,
                                                client_id, return_url_template)
                IN  IF writeOk
                    THEN done(Some(session_token), Ok(session_token), 1)
                         /\ sessions' = StoreWrite(session_state)
                    ELSE done(None, Err("SessionStore"), 1) /\ UNCHANGED sessions

NewSession ==
    \E items_requests \in ItemsRequestsArgs, usecase_id \in UseCaseIds,
       return_url_template \in ReturnUrlTemplateArgs :
       new_session(items_requests, usecase_id, return_url_template)

(***************************************************************************)
(* The ephemeral session ID.                                               *)
(***************************************************************************)
\* DateTime<Utc>::to_rfc3339 of the instant `time` seconds after the epoch.
to_rfc3339(time) ==
    LET ss == time % 60
        mm == (time \div 60) % 60
        two(n) == IF n < 10 THEN "0" \o ToString(n) ELSE ToString(n)
    IN  "1970-01-01T00:" \o two(mm) \o ":" \o two(ss) \o "+00:00"

\* format!("{}|{}", session_token, time.to_rfc3339())
format_ephemeral_id_payload(session_token, time) ==
    session_token \o "|" \o to_rfc3339(time)

\* ring::hmac::sign: the tag of a payload under a key (an ideal MAC: tags of
\* different keys or payloads differ).
hmac_sign(key, payload) == <<key, payload>>

\* ring::hmac::verify: recomputes the tag and compares.
hmac_verify(key, payload, tag) == tag = hmac_sign(key, payload)

generate_ephemeral_id(session_token, time) ==
    hmac_sign(ephemeral_id_secret, format_ephemeral_id_payload(session_token, time))

\* Mutant: an ID is stale once its age reaches the validity window.
verify_ephemeral_id_OffByOne(session_token, url_params, utc_now) ==
    IF utc_now - EPHEMERAL_ID_VALIDITY_SECONDS >= url_params.time
    THEN "ExpiredEphemeralId"
    ELSE IF ~hmac_verify(ephemeral_id_secret,
                         format_ephemeral_id_payload(session_token, url_params.time),
                         url_params.ephemeral_id)
    THEN "InvalidEphemeralId"
    ELSE "none"

\* Mutant: the HMAC is compared before the age is looked at.
verify_ephemeral_id_HmacFirst(session_token, url_params, utc_now) ==
    IF ~hmac_verify(ephemeral_id_secret,
                    format_ephemeral_id_payload(session_token, url_params.time),
                    url_params.ephemeral_id)
    THEN "InvalidEphemeralId"
    ELSE IF utc_now - EPHEMERAL_ID_VALIDITY_SECONDS > url_params.time
    THEN "ExpiredEphemeralId"
    ELSE "none"

\* Mutant: the session type is part of the payload that is verified.
verify_ephemeral_id_WithSessionType(session_token, url_params, utc_now) ==
    IF utc_now - EPHEMERAL_ID_VALIDITY_SECONDS > url_params.time
    THEN "ExpiredEphemeralId"
    ELSE IF ~hmac_verify(ephemeral_id_secret,
                         format_ephemeral_id_payload(session_token, url_params.time)
                             \o "|" \o url_params.session_type,
                         url_params.ephemeral_id)
    THEN "InvalidEphemeralId"
    ELSE "none"

\* The error of verify_ephemeral_id at current time utc_now, or "none".
verify_ephemeral_id(session_token, url_params, utc_now) ==
    IF utc_now - EPHEMERAL_ID_VALIDITY_SECONDS > url_params.time
    THEN "ExpiredEphemeralId"
    ELSE IF ~hmac_verify(ephemeral_id_secret,
                         format_ephemeral_id_payload(session_token, url_params.time),
                         url_params.ephemeral_id)
    THEN "InvalidEphemeralId"
    ELSE "none"

\* VerifierUrlParameters
VerifierUrlParameters(session_type, ephemeral_id, time) ==
    [session_type |-> session_type, ephemeral_id |-> ephemeral_id, time |-> time]

(***************************************************************************)
(* TryFrom<SessionState<DisclosureData>> for Session<Created> and for      *)
(* Session<WaitingForResponse>.                                            *)
(***************************************************************************)
TryIntoCreated(value) ==
    IF value.data.state = "Created" THEN Ok(value) ELSE Err("UnexpectedState")

\* Mutant: a session in another state is reported as unknown.
TryIntoWaitingForResponse_WrongError(value) ==
    IF value.data.state = "WaitingForResponse" THEN Ok(value) ELSE Err("UnknownSession")

TryIntoWaitingForResponse(value) ==
    IF value.data.state = "WaitingForResponse" THEN Ok(value) ELSE Err("UnexpectedState")

(***************************************************************************)
(* Typestate transitions valid for any state.                              *)
(***************************************************************************)
\* Session::transition: same token, new data, last_active updated.
\* Mutant: the next state is filed under another session's token.
transition_OtherToken(state, new_data) ==
    SessionState(CHOOSE t \in AllTokens : t # state.token, new_data, now)

\* Mutant: a transition leaves the time of the last activity as it was.
transition_KeepsLastActive(state, new_data) ==
    SessionState(state.token, new_data, state.last_active)

transition(state, new_data) == SessionState(state.token, new_data, now)

\* Mutant: the error itself is stored, not its rendering.
transition_fail_Structured(state, error) ==
    transition(state, [state |-> "Done",
                       session_result |-> [status |-> "FAILED", error |-> error]])

\* Session::transition_fail
transition_fail(state, error) ==
    transition(state, [state |-> "Done",
                       session_result |-> [status |-> "FAILED",
                                           error |-> ErrorToString(error)]])

(***************************************************************************)
(* Verifier::process_get_request                                           *)
(***************************************************************************)
\* Mutant: a SameDevice use case gets its redirect URI whatever the session
\* type of the request.
RedirectUriDecision_AnySessionType(session_type_return_url, session_type, redirect_uri_template, nonce) ==
    CASE session_type_return_url \in {"Both", "SameDevice"} /\ redirect_uri_template # None
           -> Ok(Some([template |-> redirect_uri_template[1], nonce |-> nonce]))
      [] session_type_return_url = "Neither" -> Ok(None)
      [] OTHER -> Err("panic")

\* The redirect URI decision of process_get_request_inner; "panic" for the
\* combinations the code panics on.
RedirectUriDecision(session_type_return_url, session_type, redirect_uri_template, nonce) ==
    CASE (session_type_return_url = "Both" /\ redirect_uri_template # None)
         \/ (session_type_return_url = "SameDevice" /\ session_type = "same_device"
             /\ redirect_uri_template # None)
           -> Ok(Some([template |-> redirect_uri_template[1], nonce |-> nonce]))
      [] session_type_return_url = "Neither"
         \/ (session_type_return_url = "SameDevice" /\ session_type = "cross_device")
           -> Ok(None)
      [] OTHER -> Err("panic")

\* Session<Created>::process_get_request_inner: innerErr is the failure of key
\* generation, of VpAuthorizationRequest::new or of signing, if any.
process_get_request_inner(state, session_type, innerErr, redirect_nonce, nonce, enc_keypair) ==
    IF state.data.usecase_id \notin DOMAIN UseCases THEN Err("panic")
    ELSE LET usecase == UseCases[state.data.usecase_id]
             redirect_uri == RedirectUriDecision(usecase.session_type_return_url, session_type,
                                                 state.data.redirect_uri_template, redirect_nonce)
             auth_request == [items_requests |-> state.data.items_requests,
                              client_id |-> usecase.san_dns_name.value,
                              nonce |-> nonce,
                              encryption_pubkey |-> enc_keypair,
                              response_uri |-> "response_uri/" \o state.token]
         IN  IF ~redirect_uri.ok THEN Err("panic")
             ELSE IF innerErr # "none" THEN Err(innerErr)
             ELSE Ok([jws |-> [payload |-> auth_request, signed_by |-> state.data.usecase_id],
                      auth_request |-> auth_request,
                      redirect_uri |-> redirect_uri.value,
                      enc_keypair |-> enc_keypair])

\* The failures process_get_request_inner can meet.
InnerErrors == {"none", "EncryptionKey", "AuthRequest", "Jwt"}

\* Mutant: a failure of process_get_request_inner leaves the session as it is.
SessionProcessGetRequest_NoFail(state, inner) ==
    IF inner.ok
    THEN [result |-> Ok(inner.value.jws),
          next |-> transition(state, [state |-> "WaitingForResponse",
                                      auth_request |-> inner.value.auth_request,
                                      encryption_key |-> inner.value.enc_keypair,
                                      redirect_uri |-> inner.value.redirect_uri])]
    ELSE [result |-> Err(inner.error), next |-> state]

\* Session<Created>::process_get_request: the result and the next state.
SessionProcessGetRequest(state, inner) ==
    IF inner.ok
    THEN [result |-> Ok(inner.value.jws),
          next |-> transition(state, [state |-> "WaitingForResponse",
                                      auth_request |-> inner.value.auth_request,
                                      encryption_key |-> inner.value.enc_keypair,
                                      redirect_uri |-> inner.value.redirect_uri])]
    ELSE [result |-> Err(inner.error),
          next |-> transition_fail(state, inner.error)]

\* The values process_get_request_inner draws: the failure it meets, if any,
\* the two random strings and the key pair.
InnerDraws ==
    [innerErr : InnerErrors, redirect_nonce : RandomStrings,
     nonce : RandomStrings, enc_keypair : EcKeyPairs]

\* process_get_request_inner, and with it its draws, is reached only when the
\* checks before it passed.
DrawsAfter(checked) ==
    IF checked.ok THEN InnerDraws ELSE {CHOOSE draws \in InnerDraws : TRUE}

\* Mutant: the ephemeral ID is verified before the session is looked at.
GetRequestChecks_EphemeralIdFirst(got, session_token, url_params, utc_now) ==
    LET ephemeral == verify_ephemeral_id(session_token, url_params, utc_now) IN
    IF ephemeral # "none" THEN Err(ephemeral)
    ELSE IF got = None THEN Err("UnknownSession")
    ELSE TryIntoCreated(got[1])

\* process_get_request from the session read to verify_ephemeral_id: the
\* session as Session<Created>, or the error returned early.
GetRequestChecks(got, session_token, url_params, utc_now) ==
    IF got = None THEN Err("UnknownSession")
    ELSE LET session == TryIntoCreated(got[1])
             ephemeral == verify_ephemeral_id(session_token, url_params, utc_now)
         IN  IF ~session.ok THEN session
             ELSE IF ephemeral # "none" THEN Err(ephemeral)
             ELSE session

\* Mutant: the ephemeral ID is verified inside the session's processing, so a
\* rejected ID fails the session.
GetRequestPlan_FailOnEphemeralId(got, session_token, url_params, utc_now, draws) ==
    LET checked == GetRequestChecks(got, session_token, url_params, utc_now) IN
    IF ~checked.ok
    THEN [result |-> checked,
          next |-> IF checked.error \in {"InvalidEphemeralId", "ExpiredEphemeralId"}
                   THEN Some(transition_fail(got[1], checked.error))
                   ELSE None]
    ELSE LET inner == process_get_request_inner(checked.value, url_params.session_type,
                          draws.innerErr, draws.redirect_nonce, draws.nonce,
                          draws.enc_keypair)
             step == SessionProcessGetRequest(checked.value, inner)
         IN  [result |-> step.result, next |-> Some(step.next)]

\* Mutant: a session that is already waiting for its response serves its
\* authorization request again.
GetRequestPlan_ServesAgain(got, session_token, url_params, utc_now, draws) ==
    LET checked == GetRequestChecks(got, session_token, url_params, utc_now) IN
    IF ~checked.ok
    THEN IF got # None /\ got[1].data.state = "WaitingForResponse"
         THEN [result |-> Ok([payload |-> got[1].data.auth_request, signed_by |-> "again"]),
               next |-> None]
         ELSE [result |-> checked, next |-> None]
    ELSE LET inner == process_get_request_inner(checked.value, url_params.session_type,
                          draws.innerErr, draws.redirect_nonce, draws.nonce,
                          draws.enc_keypair)
             step == SessionProcessGetRequest(checked.value, inner)
         IN  [result |-> step.result, next |-> Some(step.next)]

\* process_get_request after a successful store read: the result, and the
\* state it hands to the store (None when it returns before the write).
GetRequestPlan(got, session_token, url_params, utc_now, draws) ==
    LET checked == GetRequestChecks(got, session_token, url_params, utc_now) IN
    IF ~checked.ok THEN [result |-> checked, next |-> None]
    ELSE LET inner == process_get_request_inner(checked.value, url_params.session_type,
                          draws.innerErr, draws.redirect_nonce, draws.nonce,
                          draws.enc_keypair)
             step == SessionProcessGetRequest(checked.value, inner)
         IN  IF ~inner.ok /\ inner.error = "panic"
             THEN [result |-> Err("panic"), next |-> None]
             ELSE [result |-> step.result, next |-> Some(step.next)]

process_get_request(session_token, url_params) ==
    LET got == StoreGet(session_token)
        done(res, reads, writes) ==
            lastOp' = Op("process_get_request", Some(session_token), url_params,
                         res, reads, writes, IF writes = 0 THEN None ELSE Some(FALSE))
    IN  /\ UNCHANGED <<now, handler>>
        /\ \E getOk \in BOOLEAN :
           IF ~getOk THEN done(Err("SessionStore"), 1, 0) /\ UNCHANGED sessions
           ELSE \E draws \in DrawsAfter(GetRequestChecks(got, session_token, url_params, now)) :
                LET plan == GetRequestPlan(got, session_token, url_params, now, draws) IN
                IF plan.next = None THEN done(plan.result, 1, 0) /\ UNCHANGED sessions
                ELSE \E writeOk \in BOOLEAN :
                     IF ~writeOk THEN done(Err("SessionStore"), 1, 1) /\ UNCHANGED sessions
                     ELSE done(plan.result, 1, 1) /\ sessions' = StoreWrite(plan.next[1])

\* The `time` parameters requests carry: second 0 and the current second.
UrlTimes == {0, now}

\* The `ephemeral_id` parameters requests carry with a token and a time: the
\* genuine ID, and IDs made with another key, for another token or for another
\* time.
EphemeralIdArgs(session_token, time) ==
    {generate_ephemeral_id(session_token, time),
     hmac_sign("other", format_ephemeral_id_payload(session_token, time)),
     generate_ephemeral_id(session_token, time + 1)}
    \cup {generate_ephemeral_id(t, time) : t \in AllTokens}

ProcessGetRequest ==
    \E session_token \in DOMAIN sessions, session_type \in SessionType, time \in UrlTimes :
       \E ephemeral_id \in EphemeralIdArgs(session_token, time) :
          process_get_request(session_token,
                              VerifierUrlParameters(session_type, ephemeral_id, time))

(***************************************************************************)
(* Verifier::process_authorization_response                                *)
(***************************************************************************)
\* VpAuthorizationResponse::decrypt_and_verify: the disclosed attributes of a
\* JWE that is encrypted to the session's key, answers the session's
\* authorization request and carries a device response that verifies.
decrypt_and_verify(jwe, encryption_key, auth_request) ==
    IF jwe.encrypted_to # encryption_key THEN Err("JweDecryption")
    ELSE IF jwe.nonce # auth_request.nonce \/ ~jwe.verifies THEN Err("Verification")
    ELSE Ok(jwe.disclosed_attributes)

\* Mutant: the URL carries the session token in place of the nonce.
into_url_TokenAsNonce(redirect_uri, session_token) ==
    [template |-> redirect_uri.template, session_token |-> session_token,
     nonce |-> session_token]

\* RedirectUri::into_url: the template with the token filled in, and the nonce
\* appended as query parameter.
into_url(redirect_uri, session_token) ==
    [template |-> redirect_uri.template, session_token |-> session_token,
     nonce |-> redirect_uri.nonce]

\* Session<WaitingForResponse>::ok_response
ok_response(state, session_token) ==
    [redirect_uri |-> IF state.data.redirect_uri = None THEN None
                      ELSE Some(into_url(state.data.redirect_uri[1], session_token))]

\* Mutant: the redirect nonce is not carried over.
transition_finish_NoNonce(state, disclosed_attributes, nonce) ==
    transition(state, [state |-> "Done",
                       session_result |-> [status |-> "DONE",
                                           disclosed_attributes |-> disclosed_attributes,
                                           redirect_uri_nonce |-> None]])

\* Mutant: the session finishes without the attributes that were disclosed.
transition_finish_NoAttributes(state, disclosed_attributes, nonce) ==
    transition(state, [state |-> "Done",
                       session_result |-> [status |-> "DONE",
                                           disclosed_attributes |-> <<>>,
                                           redirect_uri_nonce |-> nonce]])

\* Session<WaitingForResponse>::transition_finish
transition_finish(state, disclosed_attributes, nonce) ==
    transition(state, [state |-> "Done",
                       session_result |-> [status |-> "DONE",
                                           disclosed_attributes |-> disclosed_attributes,
                                           redirect_uri_nonce |-> nonce]])

\* Mutant: a refusal ends the session as expired.
transition_abort_Expired(state) ==
    transition(state, [state |-> "Done", session_result |-> [status |-> "EXPIRED"]])

\* Session<WaitingForResponse>::transition_abort
transition_abort(state) ==
    transition(state, [state |-> "Done", session_result |-> [status |-> "CANCELLED"]])

\* Mutant: every error the holder posts counts as a refusal.
SessionProcessAuthorizationResponse_AnyErrorCancels(state, session_token, wallet_response) ==
    IF wallet_response.kind = "Error"
    THEN [result |-> Ok(ok_response(state, session_token)),
          next |-> transition_abort(state)]
    ELSE LET disclosed == decrypt_and_verify(wallet_response.jwe, state.data.encryption_key,
                                             state.data.auth_request)
         IN  IF disclosed.ok
             THEN [result |-> Ok(ok_response(state, session_token)),
                   next |-> transition_finish(state, disclosed.value,
                               IF state.data.redirect_uri = None THEN None
                               ELSE Some(state.data.redirect_uri[1].nonce))]
             ELSE [result |-> ErrFrom("AuthResponse", disclosed.error),
                   next |-> transition_fail(state, disclosed.error)]

\* Session<WaitingForResponse>::process_authorization_response: the result and
\* the next state.
SessionProcessAuthorizationResponse(state, session_token, wallet_response) ==
    IF wallet_response.kind = "Error"
    THEN LET user_refused == wallet_response.error = "access_denied" IN
         [result |-> Ok(ok_response(state, session_token)),
          next |-> IF user_refused THEN transition_abort(state)
                   ELSE transition_fail(state, "UserError")]
    ELSE LET disclosed == decrypt_and_verify(wallet_response.jwe, state.data.encryption_key,
                                             state.data.auth_request)
         IN  IF disclosed.ok
             THEN [result |-> Ok(ok_response(state, session_token)),
                   next |-> transition_finish(state, disclosed.value,
                               IF state.data.redirect_uri = None THEN None
                               ELSE Some(state.data.redirect_uri[1].nonce))]
             ELSE [result |-> ErrFrom("AuthResponse", disclosed.error),
                   next |-> transition_fail(state, disclosed.error)]

\* Mutant: a response to a session in another state fails that session.
AuthorizationResponsePlan_FailsUnexpected(got, session_token, wallet_response) ==
    IF got = None THEN [result |-> Err("UnknownSession"), next |-> None]
    ELSE LET session == TryIntoWaitingForResponse(got[1]) IN
         IF ~session.ok
         THEN [result |-> session, next |-> Some(transition_fail(got[1], session.error))]
         ELSE LET step == SessionProcessAuthorizationResponse(session.value, session_token,
                                                              wallet_response)
              IN  [result |-> step.result, next |-> Some(step.next)]

\* process_authorization_response after a successful store read: the result,
\* and the state it hands to the store (None when it returns before the write).
AuthorizationResponsePlan(got, session_token, wallet_response) ==
    IF got = None THEN [result |-> Err("UnknownSession"), next |-> None]
    ELSE LET session == TryIntoWaitingForResponse(got[1]) IN
         IF ~session.ok THEN [result |-> session, next |-> None]
         ELSE LET step == SessionProcessAuthorizationResponse(session.value, session_token,
                                                              wallet_response)
              IN  [result |-> step.result, next |-> Some(step.next)]

\* Mutant: the result computed is returned also when its write failed.
process_authorization_response_IgnoresWriteError(session_token, wallet_response) ==
    LET got == StoreGet(session_token)
        plan == AuthorizationResponsePlan(got, session_token, wallet_response)
        done(res, reads, writes) ==
            lastOp' = Op("process_authorization_response", Some(session_token),
                         wallet_response, res, reads, writes,
                         IF writes = 0 THEN None ELSE Some(FALSE))
    IN  /\ UNCHANGED <<now, handler>>
        /\ \E getOk \in BOOLEAN :
           IF ~getOk THEN done(Err("SessionStore"), 1, 0) /\ UNCHANGED sessions
           ELSE IF plan.next = None THEN done(plan.result, 1, 0) /\ UNCHANGED sessions
           ELSE \E writeOk \in BOOLEAN :
                IF ~writeOk THEN done(plan.result, 1, 1) /\ UNCHANGED sessions
                ELSE done(plan.result, 1, 1) /\ sessions' = StoreWrite(plan.next[1])

process_authorization_response(session_token, wallet_response) ==
    LET got == StoreGet(session_token)
        plan == AuthorizationResponsePlan(got, session_token, wallet_response)
        done(res, reads, writes) ==
            lastOp' = Op("process_authorization_response", Some(session_token),
                         wallet_response, res, reads, writes,
                         IF writes = 0 THEN None ELSE Some(FALSE))
    IN  /\ UNCHANGED <<now, handler>>
        /\ \E getOk \in BOOLEAN :
           IF ~getOk THEN done(Err("SessionStore"), 1, 0) /\ UNCHANGED sessions
           ELSE IF plan.next = None THEN done(plan.result, 1, 0) /\ UNCHANGED sessions
           ELSE \E writeOk \in BOOLEAN :
                IF ~writeOk THEN done(Err("SessionStore"), 1, 1) /\ UNCHANGED sessions
                ELSE done(plan.result, 1, 1) /\ sessions' = StoreWrite(plan.next[1])

\* The WalletAuthResponse values holders post: an error object that refuses
\* or that reports another error, or a JWE.
WalletAuthResponseArgs ==
    {[kind |-> "Error", error |-> e] : e \in {"access_denied", "invalid_request"}}
    \cup {[kind |-> "Response",
           jwe |-> [encrypted_to |-> k, nonce |-> n, verifies |-> v,
                    disclosed_attributes |-> <<"com.example.pid">>]] :
          k \in EcKeyPairs \cup {"ek_other"}, n \in RandomStrings, v \in BOOLEAN}
    \cup {[kind |-> "Response",
           jwe |-> [encrypted_to |-> k, nonce |-> n, verifies |-> TRUE,
                    disclosed_attributes |-> <<"com.example.address">>]] :
          k \in EcKeyPairs, n \in RandomStrings}

ProcessAuthorizationResponse ==
    \E session_token \in DOMAIN sessions, wallet_response \in WalletAuthResponseArgs :
       process_authorization_response(session_token, wallet_response)

(***************************************************************************)
(* Verifier::status_response and Verifier::disclosed_attributes            *)
(***************************************************************************)
\* Verifier::format_ul: the universal link carrying the request URI of the
\* session with its VerifierUrlParameters, and the client ID.
format_ul(session_token, time, ephemeral_id, session_type, client_id) ==
    [request_uri |-> [session_token |-> session_token,
                      query |-> VerifierUrlParameters(session_type, ephemeral_id, time)],
     client_id |-> client_id]

\* Mutant: an expired session is reported as failed.
StatusResponse_ExpiredAsFailed(data, session_token, session_type) ==
    CASE data.state = "Created" ->
            [status |-> "CREATED",
             ul |-> format_ul(session_token, now, generate_ephemeral_id(session_token, now),
                              session_type, data.client_id)]
      [] data.state = "WaitingForResponse" -> [status |-> "WAITINGFORRESPONSE"]
      [] data.state = "Done" ->
            [status |-> IF data.session_result.status = "EXPIRED" THEN "FAILED"
                        ELSE data.session_result.status]

\* The StatusResponse of stored session data, tagged as serde writes it
\* (rename_all = "UPPERCASE", tag = "status").
StatusResponse(data, session_token, session_type) ==
    CASE data.state = "Created" ->
            [status |-> "CREATED",
             ul |-> format_ul(session_token, now, generate_ephemeral_id(session_token, now),
                              session_type, data.client_id)]
      [] data.state = "WaitingForResponse" -> [status |-> "WAITINGFORRESPONSE"]
      [] data.state = "Done" -> [status |-> data.session_result.status]

\* Mutant: reading the status counts as activity of the session.
status_response_TouchesSession(session_token, session_type) ==
    LET got == StoreGet(session_token)
        done(res, writes) ==
            lastOp' = Op("status_response", Some(session_token),
                         [session_type |-> session_type], res, 1, writes, None)
    IN  /\ UNCHANGED <<now, handler>>
        /\ \E getOk \in BOOLEAN :
           IF ~getOk THEN done(Err("SessionStore"), 0) /\ UNCHANGED sessions
           ELSE IF got = None THEN done(Err("UnknownSession"), 0) /\ UNCHANGED sessions
           ELSE /\ done(Ok(StatusResponse(got[1].data, session_token, session_type)), 1)
                /\ sessions' = StoreWrite([got[1] EXCEPT !.last_active = now])

status_response(session_token, session_type) ==
    LET got == StoreGet(session_token)
        done(res) ==
            lastOp' = Op("status_response", Some(session_token),
                         [session_type |-> session_type], res, 1, 0, None)
    IN  /\ UNCHANGED <<now, sessions, handler>>
        /\ \E getOk \in BOOLEAN :
           IF ~getOk THEN done(Err("SessionStore"))
           ELSE IF got = None THEN done(Err("UnknownSession"))
           ELSE done(Ok(StatusResponse(got[1].data, session_token, session_type)))

StatusResponseOp ==
    \E session_token \in DOMAIN sessions, session_type \in SessionType :
       status_response(session_token, session_type)

\* VerificationError::RedirectUriMismatch(received)
RedirectUriMismatch(received) ==
    [ok |-> FALSE, error |-> "RedirectUriMismatch", received |-> received]

\* Mutant: a session that is still pending has disclosed nothing, which is
\* what is returned for it.
DisclosedAttributesOf_PendingIsEmpty(data, redirect_uri_nonce) ==
    IF data.state = "Done" /\ data.session_result.status = "DONE"
    THEN LET expected_nonce == data.session_result.redirect_uri_nonce
             disclosed == data.session_result.disclosed_attributes
         IN  IF expected_nonce = None THEN Ok(disclosed)
             ELSE IF redirect_uri_nonce = None THEN Err("RedirectUriMissing")
             ELSE IF redirect_uri_nonce = expected_nonce THEN Ok(disclosed)
             ELSE RedirectUriMismatch(redirect_uri_nonce[1])
    ELSE IF data.state = "Done" THEN Err("SessionNotDone")
    ELSE Ok(<<>>)

\* Mutant: the nonce is compared only when the caller supplies one.
DisclosedAttributesOf_NonceOptional(data, redirect_uri_nonce) ==
    IF data.state = "Done" /\ data.session_result.status = "DONE"
    THEN LET expected_nonce == data.session_result.redirect_uri_nonce
             disclosed == data.session_result.disclosed_attributes
         IN  IF expected_nonce = None \/ redirect_uri_nonce = None THEN Ok(disclosed)
             ELSE IF redirect_uri_nonce = expected_nonce THEN Ok(disclosed)
             ELSE RedirectUriMismatch(redirect_uri_nonce[1])
    ELSE Err("SessionNotDone")

\* The match of disclosed_attributes on the stored session data.
DisclosedAttributesOf(data, redirect_uri_nonce) ==
    IF data.state = "Done" /\ data.session_result.status = "DONE"
    THEN LET expected_nonce == data.session_result.redirect_uri_nonce
             disclosed == data.session_result.disclosed_attributes
         IN  IF expected_nonce = None THEN Ok(disclosed)
             ELSE IF redirect_uri_nonce = None THEN Err("RedirectUriMissing")
             ELSE IF redirect_uri_nonce = expected_nonce THEN Ok(disclosed)
             ELSE RedirectUriMismatch(redirect_uri_nonce[1])
    ELSE Err("SessionNotDone")

disclosed_attributes(session_token, redirect_uri_nonce) ==
    LET got == StoreGet(session_token)
        done(res) ==
            lastOp' = Op("disclosed_attributes", Some(session_token),
                         [redirect_uri_nonce |-> redirect_uri_nonce], res, 1, 0, None)
    IN  /\ UNCHANGED <<now, sessions, handler>>
        /\ \E getOk \in BOOLEAN :
           IF ~getOk THEN done(Err("SessionStore"))
           ELSE IF got = None THEN done(Err("UnknownSession"))
           ELSE done(DisclosedAttributesOf(got[1].data, redirect_uri_nonce))

DisclosedAttributesOp ==
    \E session_token \in DOMAIN sessions,
       redirect_uri_nonce \in {None} \cup {Some(r) : r \in RandomStrings} :
       disclosed_attributes(session_token, redirect_uri_nonce)

(***************************************************************************)
(* Expiry: Expirable for DisclosureData, and the cleanup task of the       *)
(* session store that applies it.                                          *)
(***************************************************************************)
\* Expirable::is_expired
is_expired(data) == data.state = "Done" /\ data.session_result.status = "EXPIRED"

\* Expirable::expire: whatever the data was, it becomes Done{Expired}.
expire(data) == [state |-> "Done", session_result |-> [status |-> "EXPIRED"]]

\* The cleanup task of the store: a session that has not been active for
\* some time, and is not expired yet, is expired in place.
Cleanup ==
    /\ \E t \in Existing :
          /\ sessions[t].last_active < now
          /\ ~is_expired(sessions[t].data)
          /\ sessions' = [sessions EXCEPT ![t].data = expire(@)]
          /\ lastOp' = Op("cleanup", Some(t), None, Ok(None), 1, 1, None)
    /\ UNCHANGED <<now, handler>>

(***************************************************************************)
(* The clock (Utc::now).                                                   *)
(***************************************************************************)
Tick ==
    /\ \E t \in Instants : t > now /\ now' = t
    /\ lastOp' = Op("tick", None, None, Ok(None), 0, 0, None)
    /\ UNCHANGED <<sessions, handler>>

Init ==
    /\ sessions = [t \in Tokens |-> NoSession]
    /\ now = 0
    /\ lastOp = Op("init", None, None, Ok(None), 0, 0, None)
    /\ handler = None

Next ==
    \/ NewSession
    \/ ProcessGetRequest
    \/ ProcessAuthorizationResponse
    \/ StatusResponseOp
    \/ DisclosedAttributesOp
    \/ Cleanup
    \/ Tick

Spec == Init /\ [][Next]_vars

(***************************************************************************)
(* A request handler that races with the cleanup task: the store does not  *)
(* serialize the handler's read and write against the cleanup's write, and *)
(* the last write wins. `handler` holds the request in flight with the     *)
(* session it read.                                                        *)
(***************************************************************************)
\* The handler of process_get_request or process_authorization_response
\* takes a request and reads the session.
HandlerRead ==
    /\ handler = None
    /\ \/ \E session_token \in DOMAIN sessions, session_type \in SessionType,
             time \in UrlTimes :
             \E ephemeral_id \in EphemeralIdArgs(session_token, time) :
                handler' = Some([op |-> "process_get_request", token |-> session_token,
                                 args |-> VerifierUrlParameters(session_type, ephemeral_id,
                                                                time),
                                 got |-> StoreGet(session_token)])
       \/ \E session_token \in DOMAIN sessions, wallet_response \in WalletAuthResponseArgs :
             handler' = Some([op |-> "process_authorization_response", token |-> session_token,
                              args |-> wallet_response,
                              got |-> StoreGet(session_token)])
    /\ lastOp' = Op("read", Some(handler'[1].token), None, Ok(None), 1, 0, None)
    /\ UNCHANGED <<sessions, now>>

\* The handler in flight goes on from the session it read: it returns early,
\* or computes the transition and writes it over whatever the store holds.
HandlerWrite ==
    /\ handler # None
    /\ LET h == handler[1]
           done(res, writes) ==
               lastOp' = Op(h.op, Some(h.token), h.args, res, 1, writes,
                            IF writes = 0 THEN None ELSE Some(FALSE))
           finish(plan) ==
               IF plan.next = None THEN done(plan.result, 0) /\ UNCHANGED sessions
               ELSE \E writeOk \in BOOLEAN :
                    IF ~writeOk THEN done(Err("SessionStore"), 1) /\ UNCHANGED sessions
                    ELSE done(plan.result, 1) /\ sessions' = StoreWrite(plan.next[1])
       IN  IF h.op = "process_get_request"
           THEN \E draws \in DrawsAfter(GetRequestChecks(h.got, h.token, h.args, now)) :
                   finish(GetRequestPlan(h.got, h.token, h.args, now, draws))
           ELSE finish(AuthorizationResponsePlan(h.got, h.token, h.args))
    /\ handler' = None
    /\ UNCHANGED now

NextRace ==
    \/ NewSession
    \/ HandlerRead
    \/ HandlerWrite
    \/ Cleanup
    \/ Tick

SpecRace == Init /\ [][NextRace]_vars

(***************************************************************************)
(* The verifier with two sessions in its store, at one instant of the      *)
(* clock: the specification for what one session's operations do to the    *)
(* other session.                                                          *)
(***************************************************************************)
InitTwoSessions ==
    /\ sessions = [t \in AllTokens |-> NoSession]
    /\ now = 0
    /\ lastOp = Op("init", None, None, Ok(None), 0, 0, None)
    /\ handler = None

NextTwoSessions ==
    \/ NewSession
    \/ ProcessGetRequest
    \/ ProcessAuthorizationResponse
    \/ StatusResponseOp
    \/ DisclosedAttributesOp

SpecTwoSessions == InitTwoSessions /\ [][NextTwoSessions]_vars

(***************************************************************************)
(* Properties.                                                             *)
(***************************************************************************)
GetOp == "process_get_request"
PostOp == "process_authorization_response"
VerifierOps == {"new_session", GetOp, PostOp, "status_response", "disclosed_attributes"}

EphemeralIdErrors == {Err("InvalidEphemeralId"), Err("ExpiredEphemeralId")}

\* The kind of stored session data: its state, and for Done its result.
Kind(data) ==
    IF data.state = "Done" THEN <<"Done", data.session_result.status>> ELSE <<data.state>>

\* The last operation is a process_get_request that got to verify_ephemeral_id:
\* its store read succeeded and found a Created session.
ReachedVerification ==
    /\ lastOp.op = GetOp
    /\ lastOp.res \notin {Err("UnknownSession"), Err("UnexpectedState")}
    /\ ~(lastOp.res = Err("SessionStore") /\ lastOp.writes = 0)

\* The URL parameters status_response issues for a token at a time.
IssuedUrlParameters(session_token, time, session_type) ==
    VerifierUrlParameters(session_type, generate_ephemeral_id(session_token, time), time)

\* C1: Done is terminal. Once the stored state of a session is Done, a
\* process_get_request or process_authorization_response on its token whose
\* store read succeeds returns UnexpectedState, writes nothing and leaves the
\* stored state as it is; and a session that is Done{Failed} never becomes
\* Done{Done}.
C1_DoneIsTerminal ==
    [][\A t \in Tokens :
         sessions[t].data.state = "Done" =>
           /\ (lastOp'.op \in {GetOp, PostOp} /\ lastOp'.token = Some(t)) =>
                 /\ lastOp'.res # Err("SessionStore") => lastOp'.res = Err("UnexpectedState")
                 /\ lastOp'.writes = 0
                 /\ sessions'[t] = sessions[t]
           /\ sessions[t].data.session_result.status = "FAILED" =>
                 Kind(sessions'[t].data) # <<"Done", "DONE">>]_vars

\* C1 witness: a holder response posted to a session whose verification failed
\* is answered with UnexpectedState.
C1_Witness ==
    /\ lastOp.op = PostOp
    /\ lastOp.args.kind = "Response"
    /\ lastOp.res = Err("UnexpectedState")
    /\ Kind(sessions[lastOp.token[1]].data) = <<"Done", "FAILED">>
    /\ sessions[lastOp.token[1]].data.session_result.error
          = AuthResponseErrorToString("Verification")

\* The edges of the session state machine.
DefinedEdges ==
    {<< <<"Created">>, <<"WaitingForResponse">> >>,
     << <<"Created">>, <<"Done", "FAILED">> >>,
     << <<"WaitingForResponse">>, <<"Done", "DONE">> >>,
     << <<"WaitingForResponse">>, <<"Done", "CANCELLED">> >>,
     << <<"WaitingForResponse">>, <<"Done", "FAILED">> >>}

\* C2: every change a verifier operation makes to the stored state of a
\* session follows a defined edge: Created -> WaitingForResponse, Created ->
\* Done{Failed}, WaitingForResponse -> Done{Done}, Done{Cancelled} or
\* Done{Failed}; a session that did not exist is only ever created, by
\* new_session, as Created. No operation writes Done{Expired}.
C2_DefinedEdges ==
    [][\A t \in Tokens :
         (sessions'[t] # sessions[t] /\ lastOp'.op \in VerifierOps) =>
            IF sessions[t] = NoSession
            THEN lastOp'.op = "new_session" /\ Kind(sessions'[t].data) = <<"Created">>
            ELSE <<Kind(sessions[t].data), Kind(sessions'[t].data)>> \in DefinedEdges]_vars

\* C2 witness: a holder's refusal has taken a session to Done{Cancelled}.
C2_Witness ==
    /\ lastOp.op = PostOp
    /\ lastOp.writes = 1
    /\ lastOp.res.ok
    /\ lastOp.args.kind = "Error"
    /\ Kind(sessions[lastOp.token[1]].data) = <<"Done", "CANCELLED">>

\* C3 as stated: whenever process_get_request on a Created session returns an
\* error (other than a store failure), the stored state afterwards is
\* Done{Failed}.
C3_Original ==
    [][\A t \in Tokens :
         (/\ sessions[t].data.state = "Created"
          /\ lastOp'.op = GetOp /\ lastOp'.token = Some(t)
          /\ ~lastOp'.res.ok /\ lastOp'.res # Err("SessionStore")) =>
            Kind(sessions'[t].data) = <<"Done", "FAILED">>]_vars

\* C3 amended: when process_get_request on a Created session returns an error,
\* then either the request was rejected for its ephemeral ID or the store
\* failed, and the session is left exactly as it was (Created), or building
\* the authorization request failed after the ephemeral ID was accepted, and
\* the stored state afterwards is Done{Failed} with the rendering of that
\* error and last_active set to the current time.
C3_FailedGet ==
    [][\A t \in Tokens :
         (/\ sessions[t].data.state = "Created"
          /\ lastOp'.op = GetOp /\ lastOp'.token = Some(t)
          /\ ~lastOp'.res.ok) =>
            IF lastOp'.res \in EphemeralIdErrors \cup {Err("SessionStore")}
            THEN sessions'[t] = sessions[t]
            ELSE /\ lastOp'.res.error \in InnerErrors \ {"none"}
                 /\ sessions'[t] =
                       [data |-> [state |-> "Done",
                                  session_result |->
                                     [status |-> "FAILED",
                                      error |-> ErrorToString(lastOp'.res.error)]],
                        token |-> t,
                        last_active |-> now]]_vars

\* C3 witness: a GET whose authorization request could not be built has left
\* the session in Done{Failed}.
C3_Witness ==
    /\ lastOp.op = GetOp
    /\ lastOp.res = Err("AuthRequest")
    /\ lastOp.writes = 1
    /\ Kind(sessions[lastOp.token[1]].data) = <<"Done", "FAILED">>
    /\ sessions[lastOp.token[1]].data.session_result.error
          = "error creating Authorization Request"

\* C4: a process_get_request rejected with InvalidEphemeralId or
\* ExpiredEphemeralId does not write to the store: the session is still
\* Created, with the last_active it had.
C4_RejectedIdLeavesSession ==
    [][(lastOp'.op = GetOp /\ lastOp'.res \in EphemeralIdErrors) =>
          /\ lastOp'.writes = 0
          /\ sessions' = sessions
          /\ sessions'[lastOp'.token[1]].data.state = "Created"]_vars

\* C4 witness: a GET has just been rejected for its ephemeral ID, and a GET
\* with the ID made for the current time can still take the session to
\* WaitingForResponse.
C4_Witness ==
    /\ lastOp.op = GetOp
    /\ lastOp.res = Err("ExpiredEphemeralId")
    /\ sessions[lastOp.token[1]].data.state = "Created"
    /\ sessions[lastOp.token[1]].last_active < now
    /\ ENABLED (/\ process_get_request(lastOp.token[1],
                       IssuedUrlParameters(lastOp.token[1], now, "same_device"))
                /\ lastOp'.res.ok
                /\ sessions'[lastOp.token[1]].data.state = "WaitingForResponse")

C6_EphemeralIdAccepted ==
    ReachedVerification =>
       LET token == lastOp.token[1]
           url_params == lastOp.args
       IN  /\ lastOp.res \notin EphemeralIdErrors
                <=> /\ url_params.ephemeral_id
                          = generate_ephemeral_id(token, url_params.time)
                    /\ now - url_params.time <= 10
           /\ \A t \in AllTokens, time \in 0..(MaxTime + 2) :
                 (/\ <<t, time>> # <<token, url_params.time>>
                  /\ url_params.ephemeral_id = generate_ephemeral_id(t, time))
                    => lastOp.res \in EphemeralIdErrors

\* C6 witness: the ID status_response generates at second T is accepted 9
\* seconds later.
C6_Witness ==
    /\ ReachedVerification
    /\ lastOp.args = IssuedUrlParameters(lastOp.token[1], now - 9, lastOp.args.session_type)
    /\ lastOp.res.ok

\* C7: in verify_ephemeral_id the staleness check comes first. Whenever
\* now - time exceeds 10 seconds the result is ExpiredEphemeralId, also when
\* the HMAC is wrong; InvalidEphemeralId is returned only for a time within
\* the window.
C7_StalenessFirst ==
    ReachedVerification =>
       /\ now - lastOp.args.time > 10 => lastOp.res = Err("ExpiredEphemeralId")
       /\ lastOp.res = Err("InvalidEphemeralId") => now - lastOp.args.time <= 10

\* C7 witness: an ID that is both forged and 11 seconds old is answered with
\* ExpiredEphemeralId.
C7_Witness ==
    /\ ReachedVerification
    /\ now - lastOp.args.time = 11
    /\ lastOp.args.ephemeral_id
          # generate_ephemeral_id(lastOp.token[1], lastOp.args.time)
    /\ lastOp.res = Err("ExpiredEphemeralId")

\* The request of the last operation is a URL that status_response issued for
\* the session, within its validity window, with the session type replaced
\* by one of `session_types`.
IssuedWithSessionTypeFrom(session_types) ==
    /\ ReachedVerification
    /\ now - lastOp.args.time <= 10
    /\ \E issued \in session_types :
          lastOp.args = [IssuedUrlParameters(lastOp.token[1], lastOp.args.time, issued)
                            EXCEPT !.session_type = lastOp.args.session_type]

\* C8 as stated: a request that changes session_type in an otherwise valid
\* status URL fails ephemeral-ID verification and produces no authorization
\* request.
C8_Original ==
    IssuedWithSessionTypeFrom(SessionType \ {lastOp.args.session_type}) =>
       ~lastOp.res.ok

\* C8 amended: only ephemeral_id and time are verified, against the session
\* token; session_type is not part of what the HMAC covers. A request that
\* changes session_type in an otherwise valid status URL passes ephemeral-ID
\* verification, and when it produces an authorization request the session
\* stores a redirect URI exactly as the use case policy says for the session
\* type of the request (Both, or SameDevice with same_device).
C8_SessionTypeNotVerified ==
    IssuedWithSessionTypeFrom(SessionType) =>
       /\ lastOp.res \notin EphemeralIdErrors
       /\ lastOp.res.ok =>
             LET policy == UseCases[lastOp.res.value.signed_by].session_type_return_url
                 stored == sessions[lastOp.token[1]].data
             IN  /\ stored.state = "WaitingForResponse"
                 /\ stored.redirect_uri # None
                       <=> \/ policy = "Both"
                           \/ policy = "SameDevice"
                              /\ lastOp.args.session_type = "same_device"

\* C8 witness: the ID of a URL issued for cross_device, presented with
\* same_device, has produced an authorization request and a redirect URI.
C8_Witness ==
    /\ ReachedVerification
    /\ lastOp.args.ephemeral_id
          = IssuedUrlParameters(lastOp.token[1], lastOp.args.time, "cross_device").ephemeral_id
    /\ lastOp.args.session_type = "same_device"
    /\ lastOp.res.ok
    /\ lastOp.res.value.signed_by = "uc_same"
    /\ sessions[lastOp.token[1]].data.redirect_uri # None

\* The configuration errors of new_session.
ConfigurationErrors ==
    {Err("NoItemsRequests"), Err("UnknownUseCase"),
     Err("ReturnUrlConfigurationMismatch"), Err("MissingSAN")}

\* The return URL template agrees with the policy of a use case.
AgreesWithPolicy(usecase_id, return_url_template) ==
    LET policy == UseCases[usecase_id].session_type_return_url IN
    \/ policy = "Neither" /\ return_url_template = None
    \/ policy \in {"SameDevice", "Both"} /\ return_url_template # None

\* C9: new_session rejects a configuration error before any session is
\* created: empty items_requests gives NoItemsRequests, an unknown use case
\* UnknownUseCase, a return URL template contradicting the policy
\* ReturnUrlConfigurationMismatch, a certificate without DNS SAN MissingSAN;
\* in each case the store is not written and no session changes.
C9_ConfigurationErrors ==
    [][lastOp'.op = "new_session" =>
          LET args == lastOp'.args
              known == args.usecase_id \in DOMAIN UseCases
              cert == UseCases[args.usecase_id].san_dns_name
          IN  /\ args.items_requests = <<>> => lastOp'.res = Err("NoItemsRequests")
              /\ (args.items_requests # <<>> /\ ~known)
                    => lastOp'.res = Err("UnknownUseCase")
              /\ (/\ args.items_requests # <<>> /\ known
                  /\ ~AgreesWithPolicy(args.usecase_id, args.return_url_template))
                    => lastOp'.res = Err("ReturnUrlConfigurationMismatch")
              /\ (/\ args.items_requests # <<>> /\ known
                  /\ AgreesWithPolicy(args.usecase_id, args.return_url_template)
                  /\ cert.ok /\ cert.value = None)
                    => lastOp'.res = Err("MissingSAN")
              /\ lastOp'.res \in ConfigurationErrors
                    => lastOp'.writes = 0 /\ sessions' = sessions]_vars

\* C9 witness: new_session has rejected empty items_requests while a session
\* is waiting for its response.
C9_Witness ==
    /\ lastOp.op = "new_session"
    /\ lastOp.res = Err("NoItemsRequests")
    /\ lastOp.args.usecase_id = "uc_unknown"
    /\ \E t \in Tokens : sessions[t].data.state = "WaitingForResponse"

\* C10: new_session, given items requests and a known use case, fails with
\* ReturnUrlConfigurationMismatch exactly when the return URL template
\* contradicts the policy of the use case: Neither requires the template to
\* be absent, SameDevice and Both require it to be present; a session is
\* created only when they agree.
C10_ReturnUrlPolicy ==
    (/\ lastOp.op = "new_session"
     /\ lastOp.args.items_requests # <<>>
     /\ lastOp.args.usecase_id \in DOMAIN UseCases) =>
        /\ lastOp.res = Err("ReturnUrlConfigurationMismatch")
              <=> ~AgreesWithPolicy(lastOp.args.usecase_id, lastOp.args.return_url_template)
        /\ lastOp.res.ok
              => AgreesWithPolicy(lastOp.args.usecase_id, lastOp.args.return_url_template)

\* C10 witness: new_session without a template for a SameDevice use case has
\* failed with ReturnUrlConfigurationMismatch.
C10_Witness ==
    /\ lastOp.op = "new_session"
    /\ lastOp.args.usecase_id = "uc_same"
    /\ lastOp.args.return_url_template = None
    /\ lastOp.res = Err("ReturnUrlConfigurationMismatch")

\* C11: a successful new_session makes exactly one store write, with is_new
\* = true, of a session under a token that was not in the store and that it
\* returns: Created, holding the items_requests, use case id and return URL
\* template of the call and the client_id of the use case certificate, with
\* last_active the current time. status_response on the token then reports
\* Created, and every other session is left as it was.
C11_NewSessionCreated ==
    [][(lastOp'.op = "new_session" /\ lastOp'.res.ok) =>
          LET t == lastOp'.res.value
              args == lastOp'.args
          IN  /\ lastOp'.writes = 1 /\ lastOp'.is_new = Some(TRUE)
              /\ lastOp'.token = Some(t)
              /\ sessions[t] = NoSession
              /\ sessions'[t] =
                    [data |-> [state |-> "Created",
                               items_requests |-> args.items_requests,
                               usecase_id |-> args.usecase_id,
                               client_id |->
                                  UseCases[args.usecase_id].san_dns_name.value[1],
                               redirect_uri_template |-> args.return_url_template],
                     token |-> t,
                     last_active |-> now]
              /\ \A session_type \in SessionType :
                    StatusResponse(sessions'[t].data, t, session_type).status = "CREATED"
              /\ \A u \in DOMAIN sessions \ {t} : sessions'[u] = sessions[u]]_vars

\* C11 witness: new_session has created a second session while the first is
\* waiting for its response, and a status_response on the new token that
\* reports Created is enabled.
C11_Witness ==
    /\ lastOp.op = "new_session"
    /\ lastOp.res.ok
    /\ sessions[lastOp.res.value].data.state = "Created"
    /\ \E u \in DOMAIN sessions \ {lastOp.res.value} :
          sessions[u].data.state = "WaitingForResponse"
    /\ ENABLED (/\ status_response(lastOp.res.value, "cross_device")
                /\ lastOp'.res.ok
                /\ lastOp'.res.value.status = "CREATED")

\* The last step is a process_authorization_response on token t that found
\* the session WaitingForResponse and did not fail on the store.
PostOnWaiting(t) ==
    /\ sessions[t].data.state = "WaitingForResponse"
    /\ lastOp'.op = PostOp
    /\ lastOp'.token = Some(t)
    /\ lastOp'.res # Err("SessionStore")

\* A JWE decrypts and verifies against stored WaitingForResponse data.
Verifies(jwe, data) ==
    /\ jwe.encrypted_to = data.encryption_key
    /\ jwe.nonce = data.auth_request.nonce
    /\ jwe.verifies

\* The redirect nonce of stored WaitingForResponse data.
PendingNonce(data) ==
    IF data.redirect_uri = None THEN None ELSE Some(data.redirect_uri[1].nonce)

C14_FailedResponse ==
    [][\A t \in DOMAIN sessions :
         (/\ PostOnWaiting(t)
          /\ lastOp'.args.kind = "Response"
          /\ ~Verifies(lastOp'.args.jwe, sessions[t].data)) =>
            /\ ~lastOp'.res.ok
            /\ lastOp'.res.error = "AuthResponse"
            /\ lastOp'.res.source \in AuthResponseErrors
            /\ sessions'[t].data =
                  [state |-> "Done",
                   session_result |->
                      [status |-> "FAILED",
                       error |-> AuthResponseErrorToString(lastOp'.res.source)]]]_vars

\* C14 witness: a response encrypted to another key has failed the session,
\* which stores the rendering of the decryption error.
C14_Witness ==
    /\ lastOp.op = PostOp
    /\ lastOp.args.kind = "Response"
    /\ lastOp.writes = 1
    /\ ~lastOp.res.ok
    /\ lastOp.res.error = "AuthResponse"
    /\ lastOp.res.source = "JweDecryption"
    /\ sessions[lastOp.token[1]].data.session_result
          = [status |-> "FAILED", error |-> "error decrypting JWE"]

\* C15: disclosed_attributes (the store not failing) returns attributes only
\* when the stored state is Done{Done}, and then the attributes stored; for a
\* session that is Created, WaitingForResponse, Done{Failed}, Done{Cancelled}
\* or Done{Expired} it returns SessionNotDone, for an unknown token
\* UnknownSession. A session becomes Done{Done} only by a
\* process_authorization_response whose JWE decrypts and verifies against
\* its WaitingForResponse state.
C15_AttributesOnlyWhenDone ==
    [][/\ (lastOp'.op = "disclosed_attributes" /\ lastOp'.res # Err("SessionStore")) =>
             LET stored == sessions'[lastOp'.token[1]] IN
             /\ stored = NoSession => lastOp'.res = Err("UnknownSession")
             /\ (stored # NoSession /\ Kind(stored.data) # <<"Done", "DONE">>)
                    => lastOp'.res = Err("SessionNotDone")
             /\ lastOp'.res.ok =>
                    /\ Kind(stored.data) = <<"Done", "DONE">>
                    /\ lastOp'.res.value = stored.data.session_result.disclosed_attributes
       /\ \A t \in DOMAIN sessions :
             (/\ Kind(sessions'[t].data) = <<"Done", "DONE">>
              /\ Kind(sessions[t].data) # <<"Done", "DONE">>) =>
                 /\ PostOnWaiting(t)
                 /\ lastOp'.args.kind = "Response"
                 /\ Verifies(lastOp'.args.jwe, sessions[t].data)]_vars

\* C15 witness: disclosed_attributes on a session that the cleanup expired
\* while it waited for its response has returned SessionNotDone.
C15_Witness ==
    /\ lastOp.op = "disclosed_attributes"
    /\ lastOp.res = Err("SessionNotDone")
    /\ Kind(sessions[lastOp.token[1]].data) = <<"Done", "EXPIRED">>

\* C16: for a Done{Done} session that stores a redirect nonce e,
\* disclosed_attributes (the store not failing) returns the attributes when
\* called with exactly e, RedirectUriMissing when called without nonce and
\* RedirectUriMismatch(r) when called with another nonce r; for a Done{Done}
\* session that stores no nonce it returns the attributes whether or not a
\* nonce is supplied.
C16_RedirectNonce ==
    (/\ lastOp.op = "disclosed_attributes"
     /\ lastOp.res # Err("SessionStore")
     /\ Kind(sessions[lastOp.token[1]].data) = <<"Done", "DONE">>) =>
        LET result == sessions[lastOp.token[1]].data.session_result
            received == lastOp.args.redirect_uri_nonce
        IN  lastOp.res =
               IF result.redirect_uri_nonce = None THEN Ok(result.disclosed_attributes)
               ELSE IF received = None THEN Err("RedirectUriMissing")
               ELSE IF received[1] = result.redirect_uri_nonce[1]
                    THEN Ok(result.disclosed_attributes)
               ELSE [ok |-> FALSE, error |-> "RedirectUriMismatch",
                     received |-> received[1]]

\* C16 witness: disclosed_attributes with the nonce r2 on a session that
\* stores the nonce r1 has failed with RedirectUriMismatch(r2).
C16_Witness ==
    /\ lastOp.op = "disclosed_attributes"
    /\ Kind(sessions[lastOp.token[1]].data) = <<"Done", "DONE">>
    /\ sessions[lastOp.token[1]].data.session_result.redirect_uri_nonce = Some("r1")
    /\ lastOp.args.redirect_uri_nonce = Some("r2")
    /\ ~lastOp.res.ok
    /\ lastOp.res.error = "RedirectUriMismatch"
    /\ lastOp.res.received = "r2"

\* C17: status_response and disclosed_attributes never write to the session
\* store: whatever they return, every session keeps its stored state and its
\* last_active.
C17_PureReads ==
    [][lastOp'.op \in {"status_response", "disclosed_attributes"} =>
          /\ lastOp'.writes = 0
          /\ sessions' = sessions]_vars

\* C17 witness: a disclosed_attributes that failed on the nonce, later than
\* the last activity of the session, has left last_active in the past.
C17_Witness ==
    /\ lastOp.op = "disclosed_attributes"
    /\ lastOp.res = Err("RedirectUriMissing")
    /\ lastOp.writes = 0
    /\ sessions[lastOp.token[1]].last_active < now

\* The status values of a session as the state machine draws it.
FiveStatusValues == {"CREATED", "WAITINGFORRESPONSE", "DONE", "FAILED", "CANCELLED"}

\* The variants of StatusResponse.
StatusValues == FiveStatusValues \cup {"EXPIRED"}

TokenOps == {GetOp, PostOp, "status_response", "disclosed_attributes"}

\* C19: protocol errors do not change the store. Every operation on an
\* unknown token (the store read not failing) returns UnknownSession,
\* process_get_request on a session that is not Created and
\* process_authorization_response on a session that is not
\* WaitingForResponse return UnexpectedState, and an operation that returns
\* UnknownSession or UnexpectedState made no write: no session is created
\* or altered.
C19_ProtocolErrors ==
    [][(lastOp'.op \in TokenOps /\ lastOp'.res # Err("SessionStore")) =>
          LET stored == sessions[lastOp'.token[1]] IN
          /\ stored = NoSession => lastOp'.res = Err("UnknownSession")
          /\ (/\ stored # NoSession
              /\ \/ lastOp'.op = GetOp /\ stored.data.state # "Created"
                 \/ lastOp'.op = PostOp /\ stored.data.state # "WaitingForResponse")
                => lastOp'.res = Err("UnexpectedState")
          /\ lastOp'.res \in {Err("UnknownSession"), Err("UnexpectedState")}
                => lastOp'.writes = 0 /\ sessions' = sessions]_vars

\* C19 witness: a holder response posted before the authorization request
\* was fetched has been answered with UnexpectedState, and the session is
\* still Created.
C19_Witness ==
    /\ lastOp.op = PostOp
    /\ lastOp.res = Err("UnexpectedState")
    /\ lastOp.writes = 0
    /\ sessions[lastOp.token[1]].data.state = "Created"

\* C20: an operation reads the store at most once and writes it at most
\* once. An operation that returns a SessionStore error leaves the store as
\* it was, and an operation whose write did not take effect returns the
\* SessionStore error, not the result it computed: the stored state stays at
\* its value before the operation.
C20_StoreFailure ==
    [][lastOp'.op \in VerifierOps =>
          /\ lastOp'.reads \in {0, 1}
          /\ lastOp'.writes \in {0, 1}
          /\ lastOp'.res = Err("SessionStore") =>
                /\ sessions' = sessions
                /\ lastOp'.reads + lastOp'.writes >= 1
          /\ (lastOp'.writes = 1 /\ sessions' = sessions)
                => lastOp'.res = Err("SessionStore")]_vars

\* C20 witness: the write of Done{Done}, computed for a response that
\* verifies, has failed: the operation has returned the SessionStore error
\* and the session is still WaitingForResponse.
C20_Witness ==
    /\ lastOp.op = PostOp
    /\ lastOp.res = Err("SessionStore")
    /\ lastOp.writes = 1
    /\ lastOp.args.kind = "Response"
    /\ sessions[lastOp.token[1]].data.state = "WaitingForResponse"
    /\ Verifies(lastOp.args.jwe, sessions[lastOp.token[1]].data)

\* Stored session data is complete: it has exactly the fields of one of the
\* three states.
Complete(data) ==
    CASE data.state = "Created" ->
            DOMAIN data = {"state", "items_requests", "usecase_id", "client_id",
                           "redirect_uri_template"}
      [] data.state = "WaitingForResponse" ->
            DOMAIN data = {"state", "auth_request", "encryption_key", "redirect_uri"}
      [] data.state = "Done" ->
            /\ DOMAIN data = {"state", "session_result"}
            /\ data.session_result.status \in {"DONE", "FAILED", "CANCELLED", "EXPIRED"}
      [] OTHER -> FALSE

\* process_get_request_inner does not panic on stored Created data, whatever
\* the session type of the request.
NoPanic(data) ==
    /\ data.usecase_id \in DOMAIN UseCases
    /\ \A session_type \in SessionType :
          RedirectUriDecision(UseCases[data.usecase_id].session_type_return_url,
                              session_type, data.redirect_uri_template, "r1").ok

Rank(state) ==
    CASE state = NoSession -> 0
      [] state.data.state = "Created" -> 1
      [] state.data.state = "WaitingForResponse" -> 2
      [] state.data.state = "Done" -> 3

\* C22: with the operations on a token serialized, a process_get_request
\* returns an authorization request only when it takes the session from
\* Created to WaitingForResponse, and a process_authorization_response writes
\* only when it takes the session from WaitingForResponse to Done; no step
\* takes a session back. So for every session at most one call of each kind
\* does so, and every other call of that kind on the token, the store not
\* failing, returns UnexpectedState and changes nothing.
C22_AtMostOnce ==
    [][\A t \in DOMAIN sessions :
         /\ Rank(sessions'[t]) >= Rank(sessions[t])
         /\ (lastOp'.op = GetOp /\ lastOp'.token = Some(t)) =>
               /\ lastOp'.res.ok =>
                     /\ Rank(sessions[t]) = 1 /\ Rank(sessions'[t]) = 2
                     /\ lastOp'.res.value.payload = sessions'[t].data.auth_request
               /\ (Rank(sessions[t]) > 1 /\ lastOp'.res # Err("SessionStore")) =>
                     lastOp'.res = Err("UnexpectedState") /\ sessions' = sessions
         /\ (lastOp'.op = PostOp /\ lastOp'.token = Some(t)) =>
               /\ sessions'[t] # sessions[t] =>
                     Rank(sessions[t]) = 2 /\ Rank(sessions'[t]) = 3
               /\ (Rank(sessions[t]) > 2 /\ lastOp'.res # Err("SessionStore")) =>
                     lastOp'.res = Err("UnexpectedState") /\ sessions' = sessions]_vars

\* C22 witness: a second request with a valid ephemeral ID, for a session
\* whose authorization request was already fetched, has been answered with
\* UnexpectedState.
C22_Witness ==
    /\ lastOp.op = GetOp
    /\ lastOp.args = IssuedUrlParameters(lastOp.token[1], now, lastOp.args.session_type)
    /\ lastOp.res = Err("UnexpectedState")
    /\ sessions[lastOp.token[1]].data.state = "WaitingForResponse"

\* C23: when the cleanup races with a request handler on a session and the
\* last write wins, the stored state after both writes is a Done state:
\* after the cleanup's write, and after a write of the handler that
\* overwrites the cleanup's, made between the handler's read and its write.
C23_Original ==
    [][\A t \in DOMAIN sessions :
         /\ (lastOp'.op = "cleanup" /\ lastOp'.token = Some(t))
               => sessions'[t].data.state = "Done"
         /\ (/\ handler # None /\ handler' = None
             /\ handler[1].token = t
             /\ handler[1].got # StoreGet(t)
             /\ is_expired(sessions[t].data)
             /\ sessions'[t] # sessions[t])
               => sessions'[t].data.state = "Done"]_vars

\* C24: the cleanup's expire leaves the SessionResult of a session that is
\* Done{Done}, Done{Failed} or Done{Cancelled} as it is; a Created or
\* WaitingForResponse session becomes Done{Expired}, after which is_expired
\* holds and status_response reports Expired.
C24_Original ==
    [][lastOp'.op = "cleanup" =>
          LET t == lastOp'.token[1] IN
          IF sessions[t].data.state = "Done"
          THEN sessions'[t].data.session_result = sessions[t].data.session_result
          ELSE /\ is_expired(sessions'[t].data)
               /\ \A session_type \in SessionType :
                     StatusResponse(sessions'[t].data, t, session_type).status = "EXPIRED"]_vars

\* Whether `res` is what an operation with a session token returns when the
\* store holds the session `state` of that token and nothing else.
OutcomeAlone(op, session_token, args, state, res) ==
    LET got == IF state = NoSession THEN None ELSE Some(state) IN
    \/ res = Err("SessionStore")
    \/ /\ op = GetOp
       /\ \E draws \in DrawsAfter(GetRequestChecks(got, session_token, args, now)) :
             res = GetRequestPlan(got, session_token, args, now, draws).result
    \/ /\ op = PostOp
       /\ res = AuthorizationResponsePlan(got, session_token, args).result
    \/ /\ op = "status_response"
       /\ res = IF got = None THEN Err("UnknownSession")
                ELSE Ok(StatusResponse(state.data, session_token, args.session_type))
    \/ /\ op = "disclosed_attributes"
       /\ res = IF got = None THEN Err("UnknownSession")
                ELSE DisclosedAttributesOf(state.data, args.redirect_uri_nonce)

\* C25: operations on different session tokens are independent. An operation
\* invoked with token A leaves the stored state of every other token as it
\* was, and its result is one that the operation gives on a store holding
\* A's session alone, whatever the other sessions are.
C25_Independence ==
    [][lastOp'.op \in TokenOps =>
          LET a == lastOp'.token[1] IN
          /\ \A b \in DOMAIN sessions \ {a} : sessions'[b] = sessions[b]
          /\ OutcomeAlone(lastOp'.op, a, lastOp'.args, sessions[a], lastOp'.res)]_vars

\* An authorization response has finished one session while another session
\* is waiting for its own response.
C25_Witness ==
    /\ lastOp.op = PostOp /\ lastOp.writes = 1 /\ lastOp.res.ok
    /\ Kind(sessions[lastOp.token[1]].data) = <<"Done", "DONE">>
    /\ \E b \in DOMAIN sessions \ {lastOp.token[1]} :
          sessions[b].data.state = "WaitingForResponse"

\* C26: every transition that process_get_request or
\* process_authorization_response writes keeps the session's token and sets
\* last_active to the time of the transition; no step of the verifier lets
\* the last_active of a session decrease.
C26_LastActive ==
    [][/\ (lastOp'.op \in {GetOp, PostOp} /\ lastOp'.writes = 1
           /\ lastOp'.res # Err("SessionStore"))
          => LET t == lastOp'.token[1] IN
             /\ sessions'[t].data # sessions[t].data
             /\ sessions'[t].token = sessions[t].token
             /\ sessions'[t].last_active = now'
       /\ \A t \in Existing : sessions'[t].last_active >= sessions[t].last_active]_vars

\* An authorization response was processed some time after the session was
\* made, and the session written carries that time.
C26_Witness ==
    /\ lastOp.op = PostOp /\ lastOp.writes = 1 /\ lastOp.res # Err("SessionStore")
    /\ now > 0
    /\ sessions[lastOp.token[1]].last_active = now
    /\ sessions[lastOp.token[1]].token = lastOp.token[1]

\* What status_response and disclosed_attributes give for stored data, the
\* store reads succeeding: the status tag, and the disclosed attributes or
\* the error, for the caller that passes `redirect_uri_nonce`.
Reads(data, session_token, redirect_uri_nonce) ==
    [status |-> {StatusResponse(data, session_token, st).status : st \in SessionType},
     disclosed |-> DisclosedAttributesOf(data, redirect_uri_nonce)]

\* C27: the happy path. After new_session the status is Created and
\* disclosed_attributes fails; after a successful process_get_request the
\* status is WaitingForResponse and disclosed_attributes still fails; after
\* process_authorization_response with a response that verifies and
\* discloses all requested attributes the status is Done and
\* disclosed_attributes, called with the session's redirect nonce, returns
\* the disclosed values. status_response and disclosed_attributes return
\* what the stored data gives.
C27_HappyPath ==
    [][/\ (lastOp'.op = "new_session" /\ lastOp'.res.ok) =>
             LET t == lastOp'.res.value IN
             \A n \in {None} \cup {Some(r) : r \in RandomStrings} :
                Reads(sessions'[t].data, t, n) =
                   [status |-> {"CREATED"}, disclosed |-> Err("SessionNotDone")]
       /\ (lastOp'.op = GetOp /\ lastOp'.res.ok) =>
             LET t == lastOp'.token[1] IN
             \A n \in {None} \cup {Some(r) : r \in RandomStrings} :
                Reads(sessions'[t].data, t, n) =
                   [status |-> {"WAITINGFORRESPONSE"}, disclosed |-> Err("SessionNotDone")]
       /\ (/\ lastOp'.op = PostOp /\ lastOp'.res.ok
           /\ lastOp'.args.kind = "Response"
           /\ sessions[lastOp'.token[1]].data.state = "WaitingForResponse"
           /\ lastOp'.args.jwe.disclosed_attributes =
                 sessions[lastOp'.token[1]].data.auth_request.items_requests) =>
             LET t == lastOp'.token[1] IN
             Reads(sessions'[t].data, t, PendingNonce(sessions[t].data)) =
                [status |-> {"DONE"},
                 disclosed |-> Ok(sessions[t].data.auth_request.items_requests)]
       /\ (lastOp'.op = "status_response" /\ lastOp'.res.ok) =>
             lastOp'.res.value = StatusResponse(sessions[lastOp'.token[1]].data,
                                                lastOp'.token[1], lastOp'.args.session_type)
       /\ (lastOp'.op = "disclosed_attributes" /\ lastOp'.res # Err("SessionStore")
           /\ lastOp'.token[1] \in Existing) =>
             lastOp'.res = DisclosedAttributesOf(sessions[lastOp'.token[1]].data,
                                                 lastOp'.args.redirect_uri_nonce)]_vars

\* disclosed_attributes returned the requested attributes of a session that
\* an authorization response finished.
C27_Witness ==
    /\ lastOp.op = "disclosed_attributes" /\ lastOp.res.ok
    /\ lastOp.res.value = <<"com.example.pid">>
    /\ Kind(sessions[lastOp.token[1]].data) = <<"Done", "DONE">>
    /\ sessions[lastOp.token[1]].data.session_result.redirect_uri_nonce # None

(***************************************************************************)
(* mdoc: the session transcript of OpenID4VP and the verification of what  *)
(* the issuer signed. These are functions of their arguments; a call is    *)
(* recorded in lastOp, and the store, the clock and the handlers stay as   *)
(* they are.                                                               *)
(***************************************************************************)
\* sha256 as an ideal hash: a digest stands for the bytes it was made of and
\* for no other bytes.
sha256(bytes) == [sha256 |-> bytes]

\* cbor_serialize of an array of text strings: the array header with the number
\* of items, then each string under its own header.
cbor_serialize(array) ==
    <<[major |-> "array", len |-> Len(array)]>>
    \o [i \in 1..Len(array) |-> [major |-> "text", value |-> array[i]]]

\* BaseUrl::to_string: the URL in its serialized form.
BaseUrlToString(url) == url.scheme \o "://" \o url.host \o url.path

\* Mutant: both hashes of the handover are made of the response URI.
new_oid4vp_ResponseUriTwice(response_uri, client_id, nonce, mdoc_nonce) ==
    <<None, None,
      <<sha256(cbor_serialize(<<BaseUrlToString(response_uri), mdoc_nonce>>)),
        sha256(cbor_serialize(<<BaseUrlToString(response_uri), mdoc_nonce>>)),
        nonce>>>>

\* SessionTranscript::new_oid4vp: the transcript is the sequence of the
\* device engagement bytes, the reader key bytes and the handover, and the
\* OID4VP handover the sequence of the client ID hash, the response URI hash
\* and the nonce.
new_oid4vp(response_uri, client_id, nonce, mdoc_nonce) ==
    <<None, None,
      <<sha256(cbor_serialize(<<client_id, mdoc_nonce>>)),
        sha256(cbor_serialize(<<BaseUrlToString(response_uri), mdoc_nonce>>)),
        nonce>>>>

\* The arguments new_oid4vp is called with. One client ID reads the same as
\* a response URI.
BaseUrls ==
    {[scheme |-> "https", host |-> h, path |-> pa] :
       h \in {"rp.example.com", "other.example.com"},
       pa \in {"/", "/disclosure/t1/response_uri"}}
ClientIds == {"rp.example.com", "other.example.com", "https://rp.example.com/"}
Nonces == {"n1", "n2", "m1"}
MdocNonces == {"m1", "m2"}
Oid4vpArgs ==
    [response_uri : BaseUrls, client_id : ClientIds, nonce : Nonces, mdoc_nonce : MdocNonces]

\* A call that was drawn and is still to be made: the function and its
\* arguments.
Call(fn, args) == Op("call", None, [fn |-> fn, args |-> args], Ok(None), 0, 0, None)

NewOid4vp ==
    /\ lastOp.op = "call" /\ lastOp.args.fn = "new_oid4vp"
    /\ LET a == lastOp.args.args IN
          lastOp' = Op("new_oid4vp", None, a,
                       Ok(new_oid4vp(a.response_uri, a.client_id, a.nonce, a.mdoc_nonce)),
                       0, 0, None)
    /\ UNCHANGED <<sessions, now, handler>>

\* cbor_digest: the SHA-256 digest of the tagged bytes of an item.
cbor_digest(item) == sha256([tagged |-> item])

\* IssuerSignedItem
IssuerSignedItem(digest_id, random, element_identifier, element_value) ==
    [digest_id |-> digest_id, random |-> random,
     element_identifier |-> element_identifier, element_value |-> element_value]

\* The items an issuer signed, per namespace, at their digest IDs.
SignedItems ==
    [ns \in {"ns1", "ns2"} |->
       IF ns = "ns1"
       THEN {IssuerSignedItem(0, "s0", "family_name", "Doe"),
             IssuerSignedItem(1, "s1", "given_name", "John")}
       ELSE {IssuerSignedItem(0, "s2", "city", "Utrecht")}]

\* The value_digests an issuer puts in the MSO for a set of items per
\* namespace: at each digest ID the digest of the item with that ID.
ValueDigests(items) ==
    [ns \in DOMAIN items |->
       [id \in {item.digest_id : item \in items[ns]} |->
          cbor_digest(CHOOSE item \in items[ns] : item.digest_id = id)]]

\* The MSO of the signed items, and MSOs that lack a namespace or a digest
\* ID of it.
IssuedMso == [value_digests |-> ValueDigests(SignedItems)]
MsoArgs ==
    {IssuedMso,
     [value_digests |-> ValueDigests([ns \in {"ns1"} |-> SignedItems[ns]])],
     [value_digests |->
        ValueDigests([ns \in {"ns1", "ns2"} |->
                        {item \in SignedItems[ns] : item.digest_id = 0}])]}

\* What a holder may present of a signed item: the item, the item with
\* another value, and the item under another digest ID.
Presented(item) ==
    {item,
     [item EXCEPT !.element_value = "Roe"],
     [item EXCEPT !.digest_id = 1 - @],
     [item EXCEPT !.digest_id = 2]}

\* The attributes of one namespace that are verified: up to two presented
\* items, in order.
AttributesArgs ==
    LET pool == UNION {Presented(item) : item \in SignedItems["ns1"] \cup SignedItems["ns2"]}
    IN  {<<>>} \cup {<<i>> : i \in pool} \cup {<<i, j>> : i \in pool, j \in pool}

NameSpaceArgs == {"ns1", "ns2", "ns3"}

\* Mutant: an item is accepted when the MSO has a digest at its digest ID.
verify_attr_digest_NoCompare(mso, namespace, item) ==
    IF namespace \notin DOMAIN mso.value_digests
    THEN ErrFrom("MissingNamespace", namespace)
    ELSE IF item.digest_id \notin DOMAIN mso.value_digests[namespace]
    THEN ErrFrom("MissingDigestID", item.digest_id)
    ELSE Ok(None)

\* MobileSecurityObject::verify_attr_digest
verify_attr_digest(mso, namespace, item) ==
    IF namespace \notin DOMAIN mso.value_digests
    THEN ErrFrom("MissingNamespace", namespace)
    ELSE IF item.digest_id \notin DOMAIN mso.value_digests[namespace]
    THEN ErrFrom("MissingDigestID", item.digest_id)
    ELSE IF mso.value_digests[namespace][item.digest_id] # cbor_digest(item)
    THEN Err("AttributeVerificationFailed")
    ELSE Ok(None)

\* MobileSecurityObject::verify_attrs_in_namespace: the items are verified in
\* order and the first error ends the verification; otherwise the entries of
\* all items.
verify_attrs_in_namespace(mso, attrs, namespace) ==
    LET failing == {i \in 1..Len(attrs) : ~verify_attr_digest(mso, namespace, attrs[i]).ok} IN
    IF failing # {}
    THEN verify_attr_digest(mso, namespace,
                            attrs[CHOOSE i \in failing : \A j \in failing : i <= j])
    ELSE Ok([i \in 1..Len(attrs) |->
               [name |-> attrs[i].element_identifier, value |-> attrs[i].element_value]])

VerifyAttrsArgs == [mso : MsoArgs, attrs : AttributesArgs, namespace : NameSpaceArgs]

VerifyAttrsInNamespace ==
    /\ lastOp.op = "call" /\ lastOp.args.fn = "verify_attrs_in_namespace"
    /\ LET a == lastOp.args.args IN
          lastOp' = Op("verify_attrs_in_namespace", None, a,
                       verify_attrs_in_namespace(a.mso, a.attrs, a.namespace), 0, 0, None)
    /\ UNCHANGED <<sessions, now, handler>>

\* DateTime::<Utc>::try_from(&Tdate): the instant a date string denotes, or
\* the parse error.
TryFromTdate(tdate) ==
    IF \E t \in 0..MaxTime : to_rfc3339(t) = tdate
    THEN Ok(CHOOSE t \in 0..MaxTime : to_rfc3339(t) = tdate)
    ELSE Err("ParsingFailed")

ValidityRequirement == {"AllowNotYetValid", "Valid"}

\* Mutant: the document counts as expired from the instant valid_until on.
verify_is_valid_at_ExpiredAtUntil(validity_info, time, validity) ==
    LET from == TryFromTdate(validity_info.valid_from)
        until == TryFromTdate(validity_info.valid_until)
    IN  IF validity = "Valid" /\ ~from.ok THEN from
        ELSE IF validity = "Valid" /\ time < from.value
        THEN ErrFrom("NotYetValid", validity_info.valid_from)
        ELSE IF ~until.ok THEN until
        ELSE IF time >= until.value THEN ErrFrom("Expired", validity_info.valid_from)
        ELSE Ok(None)

\* ValidityInfo::verify_is_valid_at. valid_from is parsed only under
\* ValidityRequirement::Valid; both errors carry the valid_from string.
verify_is_valid_at(validity_info, time, validity) ==
    LET from == TryFromTdate(validity_info.valid_from)
        until == TryFromTdate(validity_info.valid_until)
    IN  IF validity = "Valid" /\ ~from.ok THEN from
        ELSE IF validity = "Valid" /\ time < from.value
        THEN ErrFrom("NotYetValid", validity_info.valid_from)
        ELSE IF ~until.ok THEN until
        ELSE IF time > until.value THEN ErrFrom("Expired", validity_info.valid_from)
        ELSE Ok(None)

\* The root certificates the verifier trusts.
TrustAnchors == {"ca1"}

\* MdocCose::verify_against_trust_anchors: the payload of a COSE structure
\* whose signing certificate chains to a trust anchor, is issued for the
\* given usage, and whose signature verifies.
verify_against_trust_anchors(issuer_auth, usage, trust_anchors) ==
    IF \/ issuer_auth.signing_cert.issued_by \notin trust_anchors
       \/ issuer_auth.signing_cert.usage # usage
    THEN ErrFrom("Certificate", "Verification")
    ELSE IF ~issuer_auth.signature_valid THEN Err("Cose")
    ELSE Ok(issuer_auth.payload)

\* signing_cert()?.iter_common_name()?: the common name of the issuer, the
\* signing certificate carrying exactly one common name of the issuer and
\* exactly one of its CA; an error otherwise.
iter_common_name(issuer_auth) ==
    IF \/ Len(issuer_auth.signing_cert.common_name) # 1
       \/ Len(issuer_auth.signing_cert.ca_common_name) # 1
    THEN ErrFrom("Certificate", "CommonName")
    ELSE Ok(issuer_auth.signing_cert.common_name)

\* The map over the namespaces of IssuerSigned::verify: the namespaces are
\* verified in order and the first error ends the verification; without
\* name_spaces there are no attributes.
VerifyNameSpaces(mso, name_spaces) ==
    IF name_spaces = None THEN Ok(<<>>)
    ELSE LET ns == name_spaces[1]
             verified(i) == verify_attrs_in_namespace(mso, ns[i][2], ns[i][1])
             failing == {i \in 1..Len(ns) : ~verified(i).ok}
         IN  IF failing # {}
             THEN verified(CHOOSE i \in failing : \A j \in failing : i <= j)
             ELSE Ok([i \in 1..Len(ns) |-> <<ns[i][1], verified(i).value>>])

\* Mutant: the attributes are verified before the validity of the MSO.
IssuerSigned_verify_DigestsFirst(issuer_signed, validity, time, trust_anchors) ==
    LET verified == verify_against_trust_anchors(issuer_signed.issuer_auth, "Mdl", trust_anchors) IN
    IF ~verified.ok THEN verified
    ELSE LET mso == verified.value
             valid == verify_is_valid_at(mso.validity_info, time, validity)
             attrs == VerifyNameSpaces(mso, issuer_signed.name_spaces)
             issuer == iter_common_name(issuer_signed.issuer_auth)
         IN  IF ~attrs.ok THEN attrs
             ELSE IF ~valid.ok THEN ErrFrom("Validity", valid)
             ELSE IF ~issuer.ok THEN issuer
             ELSE Ok([attributes |-> attrs.value, issuer |-> issuer.value,
                      validity_info |-> mso.validity_info, mso |-> mso])

\* Mutant: a certificate whose common names cannot be told gives an issuer
\* without names.
IssuerSigned_verify_NamesOptional(issuer_signed, validity, time, trust_anchors) ==
    LET verified == verify_against_trust_anchors(issuer_signed.issuer_auth, "Mdl", trust_anchors) IN
    IF ~verified.ok THEN verified
    ELSE LET mso == verified.value
             valid == verify_is_valid_at(mso.validity_info, time, validity)
             attrs == VerifyNameSpaces(mso, issuer_signed.name_spaces)
             issuer == iter_common_name(issuer_signed.issuer_auth)
         IN  IF ~valid.ok THEN ErrFrom("Validity", valid)
             ELSE IF ~attrs.ok THEN attrs
             ELSE Ok([attributes |-> attrs.value,
                      issuer |-> IF issuer.ok THEN issuer.value ELSE <<>>,
                      validity_info |-> mso.validity_info, mso |-> mso])

\* IssuerSigned::verify
IssuerSigned_verify(issuer_signed, validity, time, trust_anchors) ==
    LET verified == verify_against_trust_anchors(issuer_signed.issuer_auth, "Mdl", trust_anchors) IN
    IF ~verified.ok THEN verified
    ELSE LET mso == verified.value
             valid == verify_is_valid_at(mso.validity_info, time, validity)
             attrs == VerifyNameSpaces(mso, issuer_signed.name_spaces)
             issuer == iter_common_name(issuer_signed.issuer_auth)
         IN  IF ~valid.ok THEN ErrFrom("Validity", valid)
             ELSE IF ~attrs.ok THEN attrs
             ELSE IF ~issuer.ok THEN issuer
             ELSE Ok([attributes |-> attrs.value, issuer |-> issuer.value,
                      validity_info |-> mso.validity_info, mso |-> mso])

\* The IssuerSigned values that are verified: signed by a trusted or an
\* unknown CA, for mdocs or for reader authentication, with a signature
\* that verifies or not, with or without a readable common name, valid in
\* several windows, and presenting attributes that verify or not.
Tdates == {to_rfc3339(1), to_rfc3339(7), "not a date"}
NameSpacesArgs ==
    LET family_name == IssuerSignedItem(0, "s0", "family_name", "Doe")
        given_name == IssuerSignedItem(1, "s1", "given_name", "John")
        city == IssuerSignedItem(0, "s2", "city", "Utrecht")
    IN  {None,
         Some(<<<<"ns1", <<family_name, given_name>>>>, <<"ns2", <<city>>>>>>),
         Some(<<<<"ns1", <<family_name, [given_name EXCEPT !.element_value = "Roe"]>>>>>>),
         Some(<<<<"ns3", <<city>>>>, <<"ns1", <<[family_name EXCEPT !.digest_id = 2]>>>>>>)}
IssuerSignedArgs ==
    {[issuer_auth |->
        [signing_cert |-> [issued_by |-> ca, usage |-> usage, common_name |-> cn,
                           ca_common_name |-> ca_cn],
         signature_valid |-> sig,
         payload |-> [value_digests |-> IssuedMso.value_digests,
                      validity_info |-> [valid_from |-> from, valid_until |-> until]]],
      name_spaces |-> ns] :
       ca \in {"ca1", "ca2"}, usage \in {"Mdl", "ReaderAuth"},
       cn \in {<<>>, <<"issuer.example.com">>, <<"issuer.example.com", "other.example.com">>},
       ca_cn \in {<<>>, <<"ca.example.com">>, <<"ca.example.com", "ca.other.example.com">>},
       sig \in BOOLEAN,
       from \in Tdates, until \in Tdates, ns \in NameSpacesArgs}
TimeArgs == {0, 5, 9}

VerifyArgs ==
    [issuer_signed : IssuerSignedArgs, validity : ValidityRequirement, time : TimeArgs]

IssuerSignedVerify ==
    /\ lastOp.op = "call" /\ lastOp.args.fn = "verify"
    /\ LET a == lastOp.args.args IN
          lastOp' = Op("verify", None, a,
                       IssuerSigned_verify(a.issuer_signed, a.validity, a.time, TrustAnchors),
                       0, 0, None)
    /\ UNCHANGED <<sessions, now, handler>>

\* The rendering of a ValidityError (its #[error] attribute).
ValidityErrorToString(error) ==
    CASE error.error = "ParsingFailed" -> "validity parsing failed"
      [] error.error = "NotYetValid" -> "not yet valid: valid from " \o error.source
      [] error.error = "Expired" -> "expired at " \o error.source

\* The validity windows and times verify_is_valid_at is called with.
ValidityInfoArgs ==
    [valid_from : {to_rfc3339(2), to_rfc3339(5), "not a date"},
     valid_until : {to_rfc3339(2), to_rfc3339(5), to_rfc3339(8), "not a date"}]
ValidityArgs == [validity_info : ValidityInfoArgs, time : 0..9, validity : ValidityRequirement]

VerifyIsValidAt ==
    /\ lastOp.op = "call" /\ lastOp.args.fn = "verify_is_valid_at"
    /\ LET a == lastOp.args.args IN
          lastOp' = Op("verify_is_valid_at", None, a,
                       verify_is_valid_at(a.validity_info, a.time, a.validity), 0, 0, None)
    /\ UNCHANGED <<sessions, now, handler>>

(***************************************************************************)
(* mdoc: Document::verify and DeviceResponse::verify                       *)
(***************************************************************************)
\* DeviceAuthenticationKeyed::new, as the sequence CborSeq makes of it: the
\* device namespaces are the default, empty ones.
DeviceAuthenticationKeyed_new(doc_type, session_transcript) ==
    <<"DeviceAuthentication", session_transcript, doc_type, <<>>>>

\* cbor_serialize(&TaggedBytes(..)): the tagged bytes of a value.
TaggedBytes(value) == [tagged |-> value]

\* A COSE signature or MAC made with a key over a payload, the payload being
\* detached; clone_with_payload(payload).verify(key) succeeds if the key is
\* that of the signer and the payload is what was signed.
Cose(key, over) == [key |-> key, over |-> over]
cose_verify(cose, payload, key) ==
    IF cose.key = key /\ cose.over = payload THEN Ok(None) ELSE Err("Cose")

\* dh_hmac_key: the MAC key two parties derive from their key pairs and the
\* session transcript bytes; both derive the same key.
dh_hmac_key(privkey, pubkey, salt) == [shared |-> {privkey, pubkey}, salt |-> salt]

\* VerificationError::WrongDocType
WrongDocType(document, mso) ==
    [ok |-> FALSE, error |-> "WrongDocType", document |-> document, mso |-> mso]

\* The device authentication of Document::verify, on the MSO of the
\* verified issuer_signed.
VerifyDeviceAuth(doc, mso, eph_reader_key, session_transcript) ==
    LET session_transcript_bts == TaggedBytes(session_transcript)
        device_authentication_bts ==
            TaggedBytes(DeviceAuthenticationKeyed_new(doc.doc_type, session_transcript))
        device_key == mso.device_key_info.device_key
        device_auth == doc.device_signed.device_auth
    IN  IF device_auth.kind = "DeviceSignature"
        THEN cose_verify(device_auth.cose, device_authentication_bts, device_key)
        ELSE IF eph_reader_key = None THEN Err("EphemeralKeyMissing")
        ELSE cose_verify(device_auth.cose, device_authentication_bts,
                         dh_hmac_key(eph_reader_key[1], device_key, session_transcript_bts))

\* Mutant: the device authentication is verified before the document types
\* are compared.
Document_verify_AuthFirst(doc, eph_reader_key, session_transcript, time, trust_anchors) ==
    LET issuer == IssuerSigned_verify(doc.issuer_signed, "Valid", time, trust_anchors) IN
    IF ~issuer.ok THEN issuer
    ELSE LET mso == issuer.value.mso
             auth == VerifyDeviceAuth(doc, mso, eph_reader_key, session_transcript)
         IN  IF ~auth.ok THEN auth
             ELSE IF doc.doc_type # mso.doc_type THEN WrongDocType(doc.doc_type, mso.doc_type)
             ELSE Ok(<<mso.doc_type,
                       [attributes |-> issuer.value.attributes, issuer |-> issuer.value.issuer,
                        validity_info |-> issuer.value.validity_info]>>)

\* Document::verify
Document_verify(doc, eph_reader_key, session_transcript, time, trust_anchors) ==
    LET issuer == IssuerSigned_verify(doc.issuer_signed, "Valid", time, trust_anchors) IN
    IF ~issuer.ok THEN issuer
    ELSE LET mso == issuer.value.mso
             auth == VerifyDeviceAuth(doc, mso, eph_reader_key, session_transcript)
         IN  IF doc.doc_type # mso.doc_type THEN WrongDocType(doc.doc_type, mso.doc_type)
             ELSE IF ~auth.ok THEN auth
             ELSE Ok(<<mso.doc_type,
                       [attributes |-> issuer.value.attributes, issuer |-> issuer.value.issuer,
                        validity_info |-> issuer.value.validity_info]>>)

\* The session transcripts of two sessions.
SessionTranscripts ==
    {new_oid4vp([scheme |-> "https", host |-> "rp.example.com", path |-> "/"],
                "rp.example.com", n, "m1") : n \in {"n1", "n2"}}
TheTranscript ==
    new_oid4vp([scheme |-> "https", host |-> "rp.example.com", path |-> "/"],
               "rp.example.com", "n1", "m1")

DocTypes == {"com.example.pid", "com.example.address"}

\* An IssuerSigned of a trusted issuer whose signature verifies, for a
\* document type, a device key, a validity window and presented namespaces.
IssuerSignedOf(doc_type, device_key, sig, from, until, name_spaces) ==
    [issuer_auth |->
        [signing_cert |-> [issued_by |-> "ca1", usage |-> "Mdl",
                           common_name |-> <<"issuer.example.com">>,
                           ca_common_name |-> <<"ca.example.com">>],
         signature_valid |-> sig,
         payload |-> [doc_type |-> doc_type,
                      device_key_info |-> [device_key |-> device_key],
                      value_digests |-> IssuedMso.value_digests,
                      validity_info |-> [valid_from |-> from, valid_until |-> until]]],
     name_spaces |-> name_spaces]

\* The documents that are verified at second 5: issued validly, with a bad
\* issuer signature, expired, not yet valid or with an altered attribute;
\* claiming the type of the MSO or another; authenticated by a signature or
\* a MAC, made with the device key of the MSO or another key, over this
\* session's transcript and document type or over others.
DocumentArgs ==
    LET family_name == IssuerSignedItem(0, "s0", "family_name", "Doe")
        good == Some(<<<<"ns1", <<family_name>>>>>>)
        altered == Some(<<<<"ns1", <<[family_name EXCEPT !.element_value = "Roe"]>>>>>>)
        issuer_signed(mso_type) ==
           {IssuerSignedOf(mso_type, "dk1", TRUE, to_rfc3339(2), to_rfc3339(8), good),
            IssuerSignedOf(mso_type, "dk1", FALSE, to_rfc3339(2), to_rfc3339(8), good),
            IssuerSignedOf(mso_type, "dk1", TRUE, to_rfc3339(2), to_rfc3339(2), good),
            IssuerSignedOf(mso_type, "dk1", TRUE, to_rfc3339(8), to_rfc3339(8), good),
            IssuerSignedOf(mso_type, "dk1", TRUE, to_rfc3339(2), to_rfc3339(8), altered)}
        signed(t, transcript) == TaggedBytes(DeviceAuthenticationKeyed_new(t, transcript))
        device_auth ==
           {[kind |-> "DeviceSignature", cose |-> Cose(k, signed(t, tr))] :
              k \in {"dk1", "dk2"}, t \in DocTypes, tr \in SessionTranscripts}
           \cup {[kind |-> "DeviceMac",
                   cose |-> Cose(dh_hmac_key(k, "rk1", TaggedBytes(tr)), signed(t, tr))] :
              k \in {"dk1", "dk2"}, t \in DocTypes, tr \in SessionTranscripts}
    IN  {[doc_type |-> t, issuer_signed |-> i, device_signed |-> [device_auth |-> a]] :
           t \in DocTypes, i \in UNION {issuer_signed(mt) : mt \in DocTypes}, a \in device_auth}

DocumentVerifyArgs ==
    [doc : DocumentArgs, eph_reader_key : {None, Some("rk1"), Some("rk2")}]

DocumentVerify ==
    /\ lastOp.op = "call" /\ lastOp.args.fn = "document_verify"
    /\ LET a == lastOp.args.args IN
          lastOp' = Op("document_verify", None, a,
                       Document_verify(a.doc, a.eph_reader_key, TheTranscript, 5, TrustAnchors),
                       0, 0, None)
    /\ UNCHANGED <<sessions, now, handler>>

\* Mutant: a document type that is in the map already keeps its entry.
IndexMapInsert_KeepsFirst(map, key, value) ==
    IF \E i \in 1..Len(map) : map[i][1] = key THEN map
    ELSE Append(map, <<key, value>>)

\* IndexMap::insert, the map being the sequence of its entries: the value of
\* a key that is in the map is replaced in place, a new key is appended.
IndexMapInsert(map, key, value) ==
    IF \E i \in 1..Len(map) : map[i][1] = key
    THEN [i \in 1..Len(map) |-> IF map[i][1] = key THEN <<key, value>> ELSE map[i]]
    ELSE Append(map, <<key, value>>)

\* The loop of DeviceResponse::verify over the documents from the i-th on,
\* with the attributes collected so far: the first document that does not
\* verify ends it with its error.
RECURSIVE VerifyDocuments(_, _, _, _, _, _, _)
VerifyDocuments(documents, i, attrs, eph_reader_key, session_transcript, time, trust_anchors) ==
    IF i > Len(documents) THEN Ok(attrs)
    ELSE LET verified == Document_verify(documents[i], eph_reader_key, session_transcript,
                                         time, trust_anchors)
         IN  IF ~verified.ok THEN verified
             ELSE VerifyDocuments(documents, i + 1,
                                  IndexMapInsert(attrs, verified.value[1], verified.value[2]),
                                  eph_reader_key, session_transcript, time, trust_anchors)

\* DeviceResponse::verify
DeviceResponse_verify(device_response, eph_reader_key, session_transcript, time, trust_anchors) ==
    IF device_response.document_errors # None
    THEN ErrFrom("DeviceResponseErrors", device_response.document_errors[1])
    ELSE IF device_response.status # 0
    THEN ErrFrom("UnexpectedStatus", device_response.status)
    ELSE IF device_response.documents = None THEN Err("NoDocuments")
    ELSE VerifyDocuments(device_response.documents[1], 1, <<>>, eph_reader_key,
                         session_transcript, time, trust_anchors)

\* The device responses that are verified at second 5: with or without
\* document errors, with status 0 or 10, and without documents, with an empty
\* list of documents or with up to two documents out of two valid documents
\* of one type that disclose different attributes, a valid document of
\* another type, a document whose device signature is another device's, and
\* an expired document.
DeviceResponseArgs ==
    LET family_name == Some(<<<<"ns1", <<IssuerSignedItem(0, "s0", "family_name", "Doe")>>>>>>)
        given_name == Some(<<<<"ns1", <<IssuerSignedItem(1, "s1", "given_name", "John")>>>>>>)
        city == Some(<<<<"ns2", <<IssuerSignedItem(0, "s2", "city", "Utrecht")>>>>>>)
        document(t, key, until, name_spaces) ==
           [doc_type |-> t,
            issuer_signed |-> IssuerSignedOf(t, "dk1", TRUE, to_rfc3339(2), until, name_spaces),
            device_signed |->
               [device_auth |->
                  [kind |-> "DeviceSignature",
                   cose |-> Cose(key, TaggedBytes(DeviceAuthenticationKeyed_new(t, TheTranscript)))]]]
        pool == {document("com.example.pid", "dk1", to_rfc3339(8), family_name),
                 document("com.example.pid", "dk1", to_rfc3339(8), given_name),
                 document("com.example.address", "dk1", to_rfc3339(8), city),
                 document("com.example.pid", "dk2", to_rfc3339(8), family_name),
                 document("com.example.address", "dk1", to_rfc3339(2), city)}
    IN  [document_errors : {None, Some(<<"com.example.pid: error 10">>)},
         status : {0, 10},
         documents : {None, Some(<<>>)} \cup {Some(<<d>>) : d \in pool}
                     \cup {Some(<<d, e>>) : d \in pool, e \in pool}]

DeviceResponseVerify ==
    /\ lastOp.op = "call" /\ lastOp.args.fn = "device_response_verify"
    /\ LET a == lastOp.args.args IN
          lastOp' = Op("device_response_verify", None, a,
                       DeviceResponse_verify(a, Some("rk1"), TheTranscript, 5, TrustAnchors),
                       0, 0, None)
    /\ UNCHANGED <<sessions, now, handler>>

(***************************************************************************)
(* mdoc: ItemsRequests::match_against_response                             *)
(***************************************************************************)
\* AttributeIdentifier
AttributeIdentifier(doc_type, namespace, attribute) ==
    [doc_type |-> doc_type, namespace |-> namespace, attribute |-> attribute]

\* The concatenation of a sequence of sequences (Iterator::flat_map collected
\* into a Vec).
RECURSIVE Flatten(_)
Flatten(seqs) == IF seqs = <<>> THEN <<>> ELSE Head(seqs) \o Flatten(Tail(seqs))

\* ItemsRequest::attribute_identifiers: the identifiers of the requested
\* attributes, namespace by namespace. The namespaces of a request and the
\* attributes of a namespace are keys of a map, so none occurs twice.
attribute_identifiers(items_request) ==
    Flatten([k \in 1..Len(items_request.name_spaces) |->
               [i \in 1..Len(items_request.name_spaces[k][2]) |->
                  AttributeIdentifier(items_request.doc_type, items_request.name_spaces[k][1],
                                      items_request.name_spaces[k][2][i])]])

\* Document::issuer_signed_attribute_identifiers: the identifiers of the
\* attributes a document discloses.
issuer_signed_attribute_identifiers(document) ==
    IF document.issuer_signed.name_spaces = None THEN {}
    ELSE LET name_spaces == document.issuer_signed.name_spaces[1] IN
         UNION {{AttributeIdentifier(document.doc_type, name_spaces[k][1],
                                     name_spaces[k][2][i].element_identifier) :
                   i \in 1..Len(name_spaces[k][2])} :
                k \in 1..Len(name_spaces)}

\* ItemsRequest::match_against_issuer_signed
match_against_issuer_signed(items_request, document) ==
    LET document_identifiers == issuer_signed_attribute_identifiers(document)
        absent(attribute) == attribute \notin document_identifiers
    IN  SelectSeq(attribute_identifiers(items_request), absent)

\* ItemsRequests::match_against_response: per items request the first
\* document of its type is looked up.
match_against_response(items_requests, device_response) ==
    LET documents == IF device_response.documents = None THEN <<>>
                     ELSE device_response.documents[1]
        found(items_request) ==
            {i \in 1..Len(documents) : documents[i].doc_type = items_request.doc_type}
        missing(items_request) ==
            IF found(items_request) = {} THEN attribute_identifiers(items_request)
            ELSE match_against_issuer_signed(
                    items_request,
                    documents[CHOOSE i \in found(items_request) :
                                \A j \in found(items_request) : i <= j])
        not_found == Flatten([k \in 1..Len(items_requests) |-> missing(items_requests[k])])
    IN  IF not_found = <<>> THEN Ok(None) ELSE ErrFrom("MissingAttributes", not_found)

\* The requests and responses that are matched: one or two items requests
\* for attributes of two document types, against responses without
\* documents, with an empty list, or with up to two documents that disclose
\* all, some or other attributes.
MatchArgs ==
    LET item(id, name) == IssuerSignedItem(id, "s", name, "value")
        document(t, ns, names) ==
           [doc_type |-> t,
            issuer_signed |->
               [name_spaces |-> Some(<<<<ns, [i \in 1..Len(names) |-> item(i, names[i])]>>>>)]]
        pool == {document("com.example.pid", "ns1", <<"family_name", "given_name">>),
                 document("com.example.pid", "ns1", <<"given_name", "family_name">>),
                 document("com.example.pid", "ns1", <<"family_name">>),
                 document("com.example.pid", "ns1", <<"given_name">>),
                 document("com.example.pid", "ns9", <<"family_name", "given_name">>),
                 document("com.example.address", "ns2", <<"city">>)}
        requests == {[doc_type |-> "com.example.pid",
                      name_spaces |-> <<<<"ns1", <<"family_name", "given_name">>>>>>],
                     [doc_type |-> "com.example.pid", name_spaces |-> <<<<"ns1", <<"given_name">>>>>>],
                     [doc_type |-> "com.example.pid", name_spaces |-> <<<<"ns1", <<"family_name">>>>>>],
                     [doc_type |-> "com.example.address", name_spaces |-> <<<<"ns2", <<"city">>>>>>]}
    IN  [items_requests : {<<r>> : r \in requests} \cup {<<r, q>> : r \in requests, q \in requests},
         device_response :
            [documents : {None, Some(<<>>)} \cup {Some(<<d>>) : d \in pool}
                         \cup {Some(<<d, e>>) : d \in pool, e \in pool}]]

MatchAgainstResponse ==
    /\ lastOp.op = "call" /\ lastOp.args.fn = "match_against_response"
    /\ LET a == lastOp.args.args IN
          lastOp' = Op("match_against_response", None, a,
                       match_against_response(a.items_requests, a.device_response), 0, 0, None)
    /\ UNCHANGED <<sessions, now, handler>>

\* The calls start from drawn arguments, with an empty store.
InitMdoc ==
    /\ sessions = [t \in Tokens |-> NoSession]
    /\ now = 0
    /\ handler = None
    /\ lastOp \in {Call("new_oid4vp", a) : a \in Oid4vpArgs}
                  \cup {Call("verify_attrs_in_namespace", a) : a \in VerifyAttrsArgs}
                  \cup {Call("verify", a) : a \in VerifyArgs}
                  \cup {Call("verify_is_valid_at", a) : a \in ValidityArgs}
                  \cup {Call("document_verify", a) : a \in DocumentVerifyArgs}
                  \cup {Call("device_response_verify", a) : a \in DeviceResponseArgs}
                  \cup {Call("match_against_response", a) : a \in MatchArgs}

NextMdoc ==
    \/ NewOid4vp
    \/ VerifyAttrsInNamespace
    \/ IssuerSignedVerify
    \/ VerifyIsValidAt
    \/ DocumentVerify
    \/ DeviceResponseVerify
    \/ MatchAgainstResponse

SpecMdoc == InitMdoc /\ [][NextMdoc]_vars

\* C28: the transcript of new_oid4vp has no device engagement and no reader
\* key, and its handover is (sha256 of [client_id, mdoc_nonce], sha256 of
\* [response_uri, mdoc_nonce], nonce); a second computation with the same
\* arguments gives the same transcript, and a computation in which exactly
\* one of nonce, response URI and client ID differs gives another one.
C28_Transcript ==
    lastOp.op = "new_oid4vp" =>
       LET a == lastOp.args
           transcript == lastOp.res.value
       IN  /\ transcript[1] = None /\ transcript[2] = None
           /\ transcript[3] =
                 <<sha256(cbor_serialize(<<a.client_id, a.mdoc_nonce>>)),
                   sha256(cbor_serialize(<<BaseUrlToString(a.response_uri), a.mdoc_nonce>>)),
                   a.nonce>>
           /\ \A b \in Oid4vpArgs :
                 LET other == new_oid4vp(b.response_uri, b.client_id, b.nonce, b.mdoc_nonce)
                     differing == {f \in {"nonce", "response_uri", "client_id"} : a[f] # b[f]}
                 IN  /\ a = b => other = transcript
                     /\ (a.mdoc_nonce = b.mdoc_nonce /\ Cardinality(differing) = 1)
                           => other # transcript

\* A transcript was computed for a client ID that reads the same as the
\* response URI, and its two hashes are the same.
C28_Witness ==
    /\ lastOp.op = "new_oid4vp"
    /\ lastOp.args.client_id = BaseUrlToString(lastOp.args.response_uri)
    /\ lastOp.res.value[3][1] = lastOp.res.value[3][2]
    /\ lastOp.res.value[3][3] = lastOp.args.nonce

\* Whether an item's digest is in the MSO's value_digests of the namespace,
\* at the item's digest ID.
DigestMatches(mso, namespace, item) ==
    /\ namespace \in DOMAIN mso.value_digests
    /\ item.digest_id \in DOMAIN mso.value_digests[namespace]
    /\ mso.value_digests[namespace][item.digest_id] = cbor_digest(item)

\* C29: verify_attrs_in_namespace succeeds exactly if for every item the
\* MSO has the namespace, an entry at the item's digest ID, and that entry
\* is the recomputed digest of the item. It fails with the error of the
\* first item that does not verify: MissingNamespace, MissingDigestID or
\* AttributeVerificationFailed, in that order of checks. Signed items of
\* which one got another value fail with AttributeVerificationFailed, and
\* unaltered signed items verify and yield their names and values.
C29_Digests ==
    lastOp.op = "verify_attrs_in_namespace" =>
       LET mso == lastOp.args.mso
           ns == lastOp.args.namespace
           attrs == lastOp.args.attrs
           res == lastOp.res
           bad == {i \in 1..Len(attrs) : ~DigestMatches(mso, ns, attrs[i])}
           signed == IF ns \in DOMAIN SignedItems THEN SignedItems[ns] ELSE {}
           altered == {[item EXCEPT !.element_value = "Roe"] : item \in signed}
       IN  /\ res.ok <=> bad = {}
           /\ res.ok =>
                 /\ Len(res.value) = Len(attrs)
                 /\ \A i \in 1..Len(attrs) :
                       res.value[i] = [name |-> attrs[i].element_identifier,
                                       value |-> attrs[i].element_value]
           /\ ~res.ok =>
                 LET item == attrs[CHOOSE i \in bad : \A j \in bad : i <= j] IN
                 res = IF ns \notin DOMAIN mso.value_digests
                       THEN ErrFrom("MissingNamespace", ns)
                       ELSE IF item.digest_id \notin DOMAIN mso.value_digests[ns]
                       THEN ErrFrom("MissingDigestID", item.digest_id)
                       ELSE Err("AttributeVerificationFailed")
           /\ (/\ mso = IssuedMso
               /\ \A i \in 1..Len(attrs) : attrs[i] \in signed \cup altered
               /\ \E i \in 1..Len(attrs) : attrs[i] \in altered)
                 => res = Err("AttributeVerificationFailed")
           /\ (mso = IssuedMso /\ \A i \in 1..Len(attrs) : attrs[i] \in signed)
                 => res.ok

\* Two signed items were presented, the second with another value, and the
\* verification failed on it.
C29_Witness ==
    /\ lastOp.op = "verify_attrs_in_namespace"
    /\ lastOp.args.mso = IssuedMso /\ lastOp.args.namespace = "ns1"
    /\ Len(lastOp.args.attrs) = 2
    /\ lastOp.args.attrs[1] \in SignedItems["ns1"]
    /\ lastOp.args.attrs[2] \notin SignedItems["ns1"]
    /\ lastOp.args.attrs[2].element_value = "Roe"
    /\ lastOp.res = Err("AttributeVerificationFailed")

\* The steps of IssuerSigned::verify that fail on given arguments, by number:
\* 1 the issuer signature and certificate chain for the mdoc usage, 2 the
\* validity window, 3 the attribute digests, 4 the issuer's common name.
FailingSteps(issuer_signed, validity, time) ==
    LET auth == issuer_signed.issuer_auth
        mso == auth.payload
        from == TryFromTdate(mso.validity_info.valid_from)
        until == TryFromTdate(mso.validity_info.valid_until)
        name_spaces == IF issuer_signed.name_spaces = None THEN <<>>
                       ELSE issuer_signed.name_spaces[1]
        items == UNION {{<<name_spaces[k][1], name_spaces[k][2][i]>> :
                           i \in 1..Len(name_spaces[k][2])} :
                        k \in 1..Len(name_spaces)}
    IN  {n \in 1..4 :
           CASE n = 1 -> \/ auth.signing_cert.issued_by \notin TrustAnchors
                         \/ auth.signing_cert.usage # "Mdl"
                         \/ ~auth.signature_valid
             [] n = 2 -> \/ validity = "Valid" /\ (~from.ok \/ time < from.value)
                         \/ ~until.ok
                         \/ time > until.value
             [] n = 3 -> \E it \in items : ~DigestMatches(mso, it[1], it[2])
             [] n = 4 -> \/ Len(auth.signing_cert.common_name) # 1
                         \/ Len(auth.signing_cert.ca_common_name) # 1}

\* The step an error of IssuerSigned::verify comes from.
StepOf(res) ==
    CASE res.error \in {"Certificate", "Cose"} /\ res # ErrFrom("Certificate", "CommonName") -> 1
      [] res.error = "Validity" -> 2
      [] res.error \in {"MissingNamespace", "MissingDigestID", "AttributeVerificationFailed"} -> 3
      [] res = ErrFrom("Certificate", "CommonName") -> 4

\* C30: IssuerSigned::verify checks in the order issuer signature and
\* certificate chain for the mdoc usage, validity window, attribute digests,
\* issuer name. It succeeds exactly if no step fails; otherwise it returns
\* the error of the first step that fails, and with it no attributes, no
\* issuer and no MSO.
C30_Order ==
    lastOp.op = "verify" =>
       LET failing == FailingSteps(lastOp.args.issuer_signed, lastOp.args.validity,
                                   lastOp.args.time)
           res == lastOp.res
       IN  /\ res.ok <=> failing = {}
           /\ res.ok => res.value.mso = lastOp.args.issuer_signed.issuer_auth.payload
           /\ ~res.ok =>
                 /\ StepOf(res) = CHOOSE n \in failing : \A m \in failing : n <= m
                 /\ DOMAIN res \cap {"value", "attributes", "issuer", "mso"} = {}

\* A verification failed on the validity window although an attribute had
\* been altered and the common name could not be read.
C30_Witness ==
    /\ lastOp.op = "verify"
    /\ FailingSteps(lastOp.args.issuer_signed, lastOp.args.validity, lastOp.args.time)
          = {2, 3, 4}
    /\ ~lastOp.res.ok /\ lastOp.res.error = "Validity"

\* C31: verify_is_valid_at on a window valid_from <= valid_until. Under Valid
\* a time before valid_from fails with NotYetValid, a time after valid_until
\* fails with Expired, and every time from valid_from to valid_until is
\* accepted. Under AllowNotYetValid a time up to valid_until is accepted,
\* before valid_from too, and a time after valid_until fails with Expired.
C31_Validity ==
    (/\ lastOp.op = "verify_is_valid_at"
     /\ TryFromTdate(lastOp.args.validity_info.valid_from).ok
     /\ TryFromTdate(lastOp.args.validity_info.valid_until).ok
     /\ TryFromTdate(lastOp.args.validity_info.valid_from).value
          <= TryFromTdate(lastOp.args.validity_info.valid_until).value) =>
       LET from == TryFromTdate(lastOp.args.validity_info.valid_from).value
           until == TryFromTdate(lastOp.args.validity_info.valid_until).value
           time == lastOp.args.time
           res == lastOp.res
       IN  IF lastOp.args.validity = "Valid"
           THEN /\ time < from => (~res.ok /\ res.error = "NotYetValid")
                /\ time > until => (~res.ok /\ res.error = "Expired")
                /\ (from <= time /\ time <= until) => res = Ok(None)
           ELSE /\ time <= until => res = Ok(None)
                /\ time > until => (~res.ok /\ res.error = "Expired")

\* Under AllowNotYetValid a time before valid_from was accepted.
C31_Witness ==
    /\ lastOp.op = "verify_is_valid_at"
    /\ lastOp.args.validity = "AllowNotYetValid"
    /\ lastOp.args.validity_info = [valid_from |-> to_rfc3339(5), valid_until |-> to_rfc3339(8)]
    /\ lastOp.args.time = 3
    /\ lastOp.res = Ok(None)

\* C40: the Expired error, rendered "expired at ...", reports valid_until,
\* and the NotYetValid error, rendered "not yet valid: valid from ...",
\* reports valid_from.
C40_Original ==
    (lastOp.op = "verify_is_valid_at" /\ ~lastOp.res.ok) =>
       /\ lastOp.res.error = "Expired" =>
             ValidityErrorToString(lastOp.res)
                = "expired at " \o lastOp.args.validity_info.valid_until
       /\ lastOp.res.error = "NotYetValid" =>
             ValidityErrorToString(lastOp.res)
                = "not yet valid: valid from " \o lastOp.args.validity_info.valid_from

C32_Original ==
    lastOp.op = "device_response_verify" =>
       LET a == lastOp.args IN
       /\ a.document_errors # None =>
             lastOp.res = ErrFrom("DeviceResponseErrors", a.document_errors[1])
       /\ (a.document_errors = None /\ a.status # 0) =>
             lastOp.res = ErrFrom("UnexpectedStatus", a.status)
       /\ (a.document_errors = None /\ a.status = 0
           /\ (a.documents = None \/ a.documents = Some(<<>>))) =>
             lastOp.res = Err("NoDocuments")

\* C39: DeviceResponse::verify of a response that is not rejected for its
\* document errors, status or absent documents succeeds exactly if every
\* document verifies, and otherwise returns the error of the first document
\* that does not. On success the result has one entry per distinct document
\* type, and the entry of a type is that of the last document of the type.
C39_Documents ==
    (/\ lastOp.op = "device_response_verify"
     /\ lastOp.args.document_errors = None /\ lastOp.args.status = 0
     /\ lastOp.args.documents # None) =>
       LET documents == lastOp.args.documents[1]
           res == lastOp.res
           verified(i) == Document_verify(documents[i], Some("rk1"), TheTranscript, 5, TrustAnchors)
           failing == {i \in 1..Len(documents) : ~verified(i).ok}
           types == {documents[i].doc_type : i \in 1..Len(documents)}
       IN  /\ res.ok <=> failing = {}
           /\ ~res.ok => res = verified(CHOOSE i \in failing : \A j \in failing : i <= j)
           /\ res.ok =>
                 /\ Len(res.value) = Cardinality(types)
                 /\ {res.value[k][1] : k \in 1..Len(res.value)} = types
                 /\ \A k \in 1..Len(res.value) :
                       LET last == CHOOSE i \in 1..Len(documents) :
                                      /\ documents[i].doc_type = res.value[k][1]
                                      /\ \A j \in 1..Len(documents) :
                                            documents[j].doc_type = res.value[k][1] => j <= i
                       IN  res.value[k][2] = verified(last).value[2]

\* Two documents of one type that disclose different attributes verified,
\* and the result holds the attributes of the second one only.
C39_Witness ==
    /\ lastOp.op = "device_response_verify" /\ lastOp.res.ok
    /\ Len(lastOp.res.value) = 1
    /\ lastOp.args.documents # None
    /\ Len(lastOp.args.documents[1]) = 2
    /\ lastOp.args.documents[1][1].issuer_signed # lastOp.args.documents[1][2].issuer_signed
    /\ lastOp.res.value[1][2].attributes[1][2][1].name = "given_name"

C35_Original ==
    lastOp.op = "match_against_response" =>
       LET requests == lastOp.args.items_requests
           documents == IF lastOp.args.device_response.documents = None THEN <<>>
                        ELSE lastOp.args.device_response.documents[1]
           requested == UNION {{attribute_identifiers(requests[k])[i] :
                                  i \in 1..Len(attribute_identifiers(requests[k]))} :
                               k \in 1..Len(requests)}
           present == UNION {issuer_signed_attribute_identifiers(documents[i]) :
                               i \in 1..Len(documents)}
           res == lastOp.res
       IN  /\ res.ok <=> requested \subseteq present
           /\ ~res.ok => /\ res.error = "MissingAttributes"
                          /\ {res.source[i] : i \in 1..Len(res.source)} = requested \ present

\* C36: an attribute that is requested more than once and is absent from
\* the response appears exactly once in the MissingAttributes list.
C36_Original ==
    (lastOp.op = "match_against_response" /\ ~lastOp.res.ok) =>
       \A i, j \in 1..Len(lastOp.res.source) :
          lastOp.res.source[i] = lastOp.res.source[j] => i = j

\* The policy of a use case asks for a redirect URI on a request of a session
\* type.
WantsRedirectUri(session_type_return_url, session_type) ==
    \/ session_type_return_url = "Both"
    \/ session_type_return_url = "SameDevice" /\ session_type = "same_device"

\* C37: a process_get_request that moves a Created session to
\* WaitingForResponse stores a redirect URI, made of the session's return URL
\* template and a drawn nonce, if and only if the policy of the use case is
\* Both, or SameDevice with a same_device request; for Neither and for
\* SameDevice with a cross_device request it stores none, and a session that
\* stores none gets no redirect URI in the response to the holder's post.
C37_RedirectUriPolicy ==
    [][\A t \in DOMAIN sessions :
         /\ (/\ lastOp'.op = GetOp
             /\ lastOp'.token = Some(t)
             /\ sessions[t].data.state = "Created"
             /\ sessions'[t].data.state = "WaitingForResponse") =>
               LET created == sessions[t].data
                   stored == sessions'[t].data.redirect_uri
                   wanted == WantsRedirectUri(
                                UseCases[created.usecase_id].session_type_return_url,
                                lastOp'.args.session_type)
               IN  /\ (stored # None) <=> wanted
                   /\ wanted =>
                         /\ created.redirect_uri_template # None
                         /\ \E nonce \in RandomStrings :
                               stored = Some([template |-> created.redirect_uri_template[1],
                                              nonce |-> nonce])
         /\ (/\ PostOnWaiting(t)
             /\ sessions[t].data.redirect_uri = None
             /\ lastOp'.res.ok) =>
               lastOp'.res.value.redirect_uri = None]_vars

\* C37 witness: a same_device request for a session of a SameDevice use case
\* has been served, and the session waits with a redirect URI made of its
\* template and the nonce r2.
C37_Witness ==
    /\ lastOp.op = GetOp
    /\ lastOp.res.ok
    /\ lastOp.args.session_type = "same_device"
    /\ lastOp.res.value.signed_by = "uc_same"
    /\ sessions[lastOp.token[1]].data.state = "WaitingForResponse"
    /\ sessions[lastOp.token[1]].data.redirect_uri # None
    /\ sessions[lastOp.token[1]].data.redirect_uri[1].nonce = "r2"

\* C38: the redirect nonce is bound end to end. A session keeps the redirect
\* URI it stored at the GET for as long as it waits; the successful response
\* to the holder's post carries a redirect URI if and only if the waiting
\* session holds one, with the nonce of that URI as its nonce parameter; the
\* nonce stored in Done{Done} is that same nonce; so disclosed_attributes on
\* the finished session succeeds only with the nonce delivered to the holder.
C38_NonceBound ==
    [][\A t \in DOMAIN sessions :
         /\ (/\ sessions[t].data.state = "WaitingForResponse"
             /\ sessions'[t].data.state = "WaitingForResponse") =>
               sessions'[t].data.redirect_uri = sessions[t].data.redirect_uri
         /\ (PostOnWaiting(t) /\ lastOp'.res.ok) =>
               LET pending == sessions[t].data.redirect_uri
                   sent == lastOp'.res.value.redirect_uri
               IN  /\ (sent # None) <=> (pending # None)
                   /\ pending # None =>
                         /\ sent[1].nonce = pending[1].nonce
                         /\ sent[1].template = pending[1].template
                         /\ sent[1].session_token = t
                   /\ Kind(sessions'[t].data) = <<"Done", "DONE">> =>
                         /\ sessions'[t].data.session_result.redirect_uri_nonce =
                               (IF sent = None THEN None ELSE Some(sent[1].nonce))
                         /\ sent # None =>
                               \A nonce \in {None} \cup {Some(r) : r \in RandomStrings} :
                                  DisclosedAttributesOf(sessions'[t].data, nonce).ok
                                     => nonce = Some(sent[1].nonce)
         /\ (/\ lastOp'.op = "disclosed_attributes"
             /\ lastOp'.token = Some(t)
             /\ lastOp'.res.ok
             /\ sessions[t].data.session_result.redirect_uri_nonce # None) =>
               lastOp'.args.redirect_uri_nonce
                  = sessions[t].data.session_result.redirect_uri_nonce]_vars

\* C38 witness: a verified response has finished a session that waited with
\* the nonce r2; the response delivers r2, the session stores r2, and
\* disclosed_attributes with r1 is refused.
C38_Witness ==
    /\ lastOp.op = PostOp
    /\ lastOp.args.kind = "Response"
    /\ lastOp.res.ok
    /\ lastOp.res.value.redirect_uri # None
    /\ lastOp.res.value.redirect_uri[1].nonce = "r2"
    /\ Kind(sessions[lastOp.token[1]].data) = <<"Done", "DONE">>
    /\ sessions[lastOp.token[1]].data.session_result.redirect_uri_nonce = Some("r2")
    /\ ~DisclosedAttributesOf(sessions[lastOp.token[1]].data, Some("r1")).ok

====
